---- MODULE Spec2Model ----
(***************************************************************************)
(* Model of the analysis orchestration core of FullSpectrumWebID:          *)
(* the request queue and its worker thread (src/src/Analysis.cpp,          *)
(* do_analysis / post_analysis / start_analysis_thread /                   *)
(* stop_analysis_thread), the three analysis strategies the worker         *)
(* dispatches to (do_simple_analysis, do_search_analysis,                  *)
(* do_portal_analysis), the cached engine configuration g_gad_drf etc, and *)
(* the threads that call into this API (main.cpp, CommandLineAna.cpp,      *)
(* RestResources.cpp, AnalysisGui.cpp, FullSpectrumApp.cpp).               *)
(*                                                                         *)
(* Every critical section on g_ana_queue_mutex is one atomic action; a     *)
(* condition_variable::wait releases the mutex and blocks in that same     *)
(* action, and the woken thread re-acquires the mutex in its next action.  *)
(* std::condition_variable permits spurious wake-ups: they are separate    *)
(* actions that no fairness condition ever forces.                         *)
(***************************************************************************)
EXTENDS Integers, Sequences, FiniteSets, TLC

\* ------------------------------------------------------------------ bounds
\* Number of caller threads.  Each calls post_analysis once; the threads are
\* interchangeable and are numbered in the order of their calls, and the
\* number serves as the ana_number of the request.
MaxReq == 2
\* Largest number of foreground windows one search request analyses.
MaxWindows == 1

Callers == 1..MaxReq

\* AnalysisOutput::AnalysisOutput() initial value of both error codes.
UnsetCode == -999
\* Status values an engine analysis call may return (negative = failure).
EngineStatus == {-1, 0, 1}
\* Status values an engine initialization call may return.
InitStatus == {-1, 0}
\* Detector response folders a request may name.
DRFs == {"drfA"}
\* Detector counts of a search request (energy_cals.size()).
NumDets == {1}

AnalysisTypes == {"Simple", "Search", "Portal"}

VARIABLES
  g_keep_analyzing,     \* bool g_keep_analyzing
  g_analysis_thread,    \* g_analysis_thread != nullptr
  g_simple_ana_queue,   \* std::deque<AnalysisInput>, as caller indices
  g_gad,                \* g_gad_drf, g_gad_nchannel, g_gad_calibrated,
                        \* g_num_detectors, g_gad_cal_adjust
  engine_search,        \* hidden engine state stepped by AnalysisMode
  server,               \* Wt::WServer::instance() != nullptr
  mpc,                  \* position of the main thread (main.cpp); at
                        \* "server_info" it is inside gadras_version_number
  cpc,                  \* position of each caller thread; "rejected" once
                        \* post_analysis threw
  wt_app_id,            \* AnalysisInput::wt_app_id of each accepted request
  accepted,             \* callers in the order post_analysis accepted them
  wpc,                  \* position of the worker thread (do_analysis)
  ana_to_do,            \* rest of the drained batch, head = current input
  batch_of,             \* number of the batch each request was drained into
  cur_type,             \* input.analysis_type of the current input
  result,               \* Analysis::AnalysisOutput of the current input
  threw,                \* an exception reached the strategy's catch block
  calls,                \* engine calls made for the current input: the
                        \* AnalysisMode of each g_StreamingSearch call, and
                        \* under DataSpec every other engine function called
  do_reset_ana,         \* the DoWorkOnDestruct guard is alive
  windows,              \* foreground windows analysed so far
  cb_order,             \* callers in the order their callback was dispatched
  outcome,              \* how each request's analysis ended, once delivered
  input,                \* the AnalysisInput under analysis, as it was enqueued
  input_file,           \* the SpecFile input.input points to, as it is now
  spec_file,            \* what result.spec_file points to
  energy_cals,          \* do_search_analysis: calibration kept per detector
  background_samples,   \* do_search_analysis: set<int> background_samples
  sample_iter,          \* do_search_analysis: the outer loop's sample_iter
  real_time_and_samples,\* do_search_analysis: the windows formed so far
  rebinned,             \* spectra the rebinning decision sent to rebinning
  prev_request,         \* configuration the previous request initialized
  cal_in,               \* EnergyCal: the arguments of the call under study
  cal_out,              \* EnergyCal: what the call left behind
  cal_again,            \* EnergyCal: what the same call left when repeated
  g_gad_app_folder,     \* Analysis.cpp: string g_gad_app_folder
  high_conf_isotopes,   \* do_search_analysis: isotopes a window gave as H
  medium_conf_isotopes, \* do_search_analysis: isotopes a window gave as F
  response              \* handleRequest: what each HTTP request was answered

vars ==<< g_keep_analyzing, g_analysis_thread, g_simple_ana_queue, g_gad,
           engine_search, server, mpc, cpc, wt_app_id, accepted, wpc, ana_to_do, batch_of, cur_type, result, threw,
           calls, do_reset_ana, windows, cb_order, outcome, input,
           input_file, spec_file, energy_cals, background_samples,
           sample_iter, real_time_and_samples, rebinned, prev_request,
           cal_in, cal_out, cal_again, g_gad_app_folder,
           high_conf_isotopes, medium_conf_isotopes, response >>

queue_vars  == << g_keep_analyzing, g_simple_ana_queue >>
caller_vars == << cpc, wt_app_id, accepted >>
\* What the strategies read of the request's data and keep while they run.
\* The strategy steps of Spec choose the outcome of every test on the data
\* freely and leave these variables alone; the steps of DataSpec compute the
\* tests from the data.
locals_vars == << input, input_file, spec_file, energy_cals,
                  background_samples, sample_iter, real_time_and_samples,
                  rebinned >>
\* The EnergyCal functions are free functions without state: the server and
\* the worker leave the record of the call under study alone.
cal_vars    == << cal_in, cal_out, cal_again >>
conf_vars   == << high_conf_isotopes, medium_conf_isotopes >>
\* No request and no step of the server assigns the application directory:
\* set_gadras_app_dir alone does.  The isotope arrays and the confidence
\* sets of the search are followed under IsotopeSpec only, the HTTP
\* responses under RestSpec only.
still_vars  == << cal_vars, g_gad_app_folder, conf_vars, response >>
data_vars   == << locals_vars, prev_request, still_vars >>
ana_vars    == << g_gad, engine_search, cur_type, result, threw, calls,
                  do_reset_ana, windows, data_vars >>
batch_vars  == << ana_to_do, batch_of >>

\* ----------------------------------------------------------------- helpers
SeqToSet(s) == { s[i] : i \in 1..Len(s) }

Count(s, x) == Cardinality({ i \in 1..Len(s) : s[i] = x })

IndexOf(s, x) == CHOOSE i \in 1..Len(s) : s[i] = x

\* The five variables that record what the engine is initialized for.
GadUninitialized ==
  [ drf |-> "", nchannel |-> -1, calibrated |-> FALSE,
    num_detectors |-> -1, cal_adjust |-> "None" ]

\* result.analysis_warnings.push_back( w ); the warnings are named by what
\* they say.
Warn(res, w) == [ res EXCEPT !.analysis_warnings = @ \cup {w} ]

\* The warning each outcome of the K40 block pushes.
K40Warning(o) ==
  CASE o = "not_tried"   -> "k40_not_tried"
    [] o = "skipped"     -> "k40_skipped"
    [] o = "failed"      -> "k40_failed"
    [] o = "refit_threw" -> "recal_error"

NewOutput ==
  [ gadras_intialization_error |-> UnsetCode,
    gadras_analysis_error      |-> UnsetCode,
    error_message              |-> FALSE,
    analysis_warnings          |-> {} ]

\* g_ana_queue_cv.notify_all(): every thread blocked on the queue condition
\* variable becomes runnable; the worker is blocked at "wait", the thread in
\* stop_analysis_thread at "stop_wait".
NotifiedWorker(pc) == IF pc = "wait" THEN "woken" ELSE pc

NotifiedMain(pc) == IF pc = "stop_wait" THEN "stop_pred" ELSE pc

Running == wpc # "crashed"

\* The main thread is inside a function of the engine.
MainInEngine == mpc = "server_info"

\* -------------------------------------------------- the data of a request
\* An EnergyCalibration behind a shared_ptr: id tells the instances apart
\* (operator== of shared_ptr), coefs stands for type, coefficients and
\* deviation pairs together; coefs = 0 is a calibration whose valid() is false.
InvalidCal == [ id |-> 0, coefs |-> 0 ]

Cal1 == [ id |-> 1, coefs |-> 1 ]

\* A second instance with the values of Cal1.
Cal2 == [ id |-> 2, coefs |-> 1 ]

\* A third instance with other values.
Cal3 == [ id |-> 3, coefs |-> 2 ]

\* The instance make_shared<EnergyCalibration>() creates for a refitted gain.
NewCal == [ id |-> 4, coefs |-> 3 ]

CalValid(cal) == cal.coefs # 0

\* A Measurement of the SpecFile; real times are in milliseconds.  A search
\* input holds one measurement per sample number, a simple input one per
\* record.
Meas(src, rt, cal) ==
  [ source_type |-> src, real_time |-> rt, cal |-> cal, counts |-> "native" ]

NoInput == [ drf_folder |-> "", nchannel |-> 0, ndet |-> 0, file |-> << >> ]

NoConfig == [ drf |-> "", nchannel |-> -1, mode |-> "none", ndet |-> -1 ]

NoRequest == [ config |-> NoConfig, ok |-> FALSE ]

\* No request is under analysis: the locals of the strategy do not exist.
NoLocals ==
  [ input |-> NoInput, input_file |-> << >>, spec_file |-> "unset",
    energy_cals |-> InvalidCal, background_samples |-> {},
    sample_iter |-> 0, real_time_and_samples |-> << >>, rebinned |-> {} ]

Locals ==
  [ input |-> input, input_file |-> input_file, spec_file |-> spec_file,
    energy_cals |-> energy_cals, background_samples |-> background_samples,
    sample_iter |-> sample_iter,
    real_time_and_samples |-> real_time_and_samples, rebinned |-> rebinned ]

LocalsAre(l) ==
  /\ input = l.input
  /\ input_file = l.input_file
  /\ spec_file = l.spec_file
  /\ energy_cals = l.energy_cals
  /\ background_samples = l.background_samples
  /\ sample_iter = l.sample_iter
  /\ real_time_and_samples = l.real_time_and_samples
  /\ rebinned = l.rebinned

\* Assignment of all the locals at once.
SetLocals(l) ==
  /\ input' = l.input
  /\ input_file' = l.input_file
  /\ spec_file' = l.spec_file
  /\ energy_cals' = l.energy_cals
  /\ background_samples' = l.background_samples
  /\ sample_iter' = l.sample_iter
  /\ real_time_and_samples' = l.real_time_and_samples
  /\ rebinned' = l.rebinned

NoData == LocalsAre(NoLocals) /\ prev_request = NoRequest
\* No EnergyCal call is under study.
NoCal == [ op |-> "none" ]
NoCalls == cal_in = NoCal /\ cal_out = NoCal /\ cal_again = NoCal

\* ------------------------------------------------------------------- Init
\* A Wt::Http::Response nothing was written to: status 200, and out the
\* codes of the JSON objects written to response.out(), in order.
NoResponse == [ status |-> 200, out |-> << >> ]

\* string g_gad_app_folder = "gadras_isotope_id_run_directory";
DefaultAppDir == "gadras_isotope_id_run_directory"

\* The process before main() starts the server.
ServerDown ==
  /\ g_keep_analyzing = FALSE
  /\ g_analysis_thread = FALSE
  /\ g_simple_ana_queue = << >>
  /\ g_gad = GadUninitialized
  /\ g_gad_app_folder = DefaultAppDir
  /\ high_conf_isotopes = {} /\ medium_conf_isotopes = {}
  /\ response = [ c \in Callers |-> NoResponse ]
  /\ engine_search = "idle"
  /\ server = FALSE
  /\ mpc = "main"
  /\ cpc = [ c \in Callers |-> "idle" ]
  /\ wt_app_id = [ c \in Callers |-> "" ]
  /\ accepted = << >>
  /\ wpc = "none"
  /\ ana_to_do = << >>
  /\ batch_of = [ c \in Callers |-> 0 ]
  /\ cur_type = "Simple"
  /\ result = NewOutput
  /\ threw = FALSE
  /\ calls = << >>
  /\ do_reset_ana = FALSE
  /\ windows = 0
  /\ cb_order = << >>
  /\ outcome = [ c \in Callers |-> "none" ]
  /\ NoData

Init == ServerDown /\ NoCalls

\* ------------------------------------------------------- the main thread
\* start_analysis_thread(), first block: g_keep_analyzing = true under the
\* queue mutex, before the thread object exists.
StartSetFlag ==
  /\ Running /\ mpc = "main"
  /\ g_keep_analyzing' = TRUE
  /\ mpc' = "start_create"
  /\ UNCHANGED << g_analysis_thread, g_simple_ana_queue, server, caller_vars,
                  wpc, batch_vars, ana_vars, cb_order, outcome >>

\* start_analysis_thread(), second block: throws if a thread exists, else
\* creates the thread running do_analysis.
StartCreateThread ==
  /\ Running /\ mpc = "start_create"
  /\ IF g_analysis_thread
       THEN UNCHANGED << g_analysis_thread, wpc >>
       ELSE g_analysis_thread' = TRUE /\ wpc' = "top"
  /\ mpc' = "run"
  /\ UNCHANGED << queue_vars, server, caller_vars, batch_vars,
                  ana_vars, cb_order, outcome >>

\* AppUtils::start_server: ns_server = make_shared<WServer>( ... ), after
\* which WServer::instance() is set; with the REST API enabled the thread
\* then constructs InfoResource, whose constructor calls
\* Analysis::gadras_version_string() and with it the engine's
\* gadras_version_number().
StartServer ==
  /\ Running /\ mpc = "run"
  /\ server' = TRUE
  /\ \E enable_rest_api \in BOOLEAN :
       mpc' = IF enable_rest_api THEN "server_info" ELSE "serving"
  /\ UNCHANGED << queue_vars, g_analysis_thread, caller_vars, wpc, batch_vars,
                  ana_vars, cb_order, outcome >>

\* InfoResource::InfoResource() returns; start_server starts the server.
InfoResourceDone ==
  /\ Running /\ mpc = "server_info"
  /\ mpc' = "serving"
  /\ UNCHANGED << queue_vars, g_analysis_thread, server, caller_vars, wpc,
                  batch_vars, ana_vars, cb_order, outcome >>

\* AppUtils::wait_for_server_to_finish -> kill_server: ns_server.reset().
KillServer ==
  /\ Running /\ mpc = "serving"
  /\ server' = FALSE
  /\ mpc' = "served"
  /\ UNCHANGED << queue_vars, g_analysis_thread, caller_vars,
                  wpc, batch_vars, ana_vars, cb_order, outcome >>

\* stop_analysis_thread(), entry: throws when no thread is running.  main()
\* calls it after the command-line analysis, after the server has finished,
\* or when the server failed to start.
StopBegin ==
  /\ Running /\ mpc \in {"run", "served"}
  /\ mpc' = IF g_analysis_thread THEN "stop_flag" ELSE "stop_threw"
  /\ UNCHANGED << queue_vars, g_analysis_thread, server, caller_vars,
                  wpc, batch_vars, ana_vars, cb_order, outcome >>

\* stop_analysis_thread(): g_keep_analyzing = false under the queue mutex.
StopSetFlag ==
  /\ Running /\ mpc = "stop_flag"
  /\ g_keep_analyzing' = FALSE
  /\ mpc' = "stop_notify"
  /\ UNCHANGED << g_analysis_thread, g_simple_ana_queue, server, caller_vars,
                  wpc, batch_vars, ana_vars, cb_order, outcome >>

\* stop_analysis_thread(): g_ana_queue_cv.notify_all().
StopNotify ==
  /\ Running /\ mpc = "stop_notify"
  /\ wpc' = NotifiedWorker(wpc)
  /\ mpc' = "stop_pred"
  /\ UNCHANGED << queue_vars, g_analysis_thread, server, caller_vars,
                  batch_vars, ana_vars, cb_order, outcome >>

\* The predicate of g_ana_queue_cv.wait( queue_lock, pred ).
StopWaitPredicate(queue) == queue = << >>

\* stop_analysis_thread(): wait( lock, pred ) is while( !pred() ) wait( lock ).
StopPred ==
  /\ Running /\ mpc = "stop_pred"
  /\ mpc' = IF StopWaitPredicate(g_simple_ana_queue) THEN "stop_join"
            ELSE "stop_wait"
  /\ UNCHANGED << queue_vars, g_analysis_thread, server, caller_vars,
                  wpc, batch_vars, ana_vars, cb_order, outcome >>

\* A spurious wake-up of the wait in stop_analysis_thread re-evaluates the
\* predicate.
StopSpuriousWake ==
  /\ Running /\ mpc = "stop_wait"
  /\ mpc' = "stop_pred"
  /\ UNCHANGED << queue_vars, g_analysis_thread, server, caller_vars,
                  wpc, batch_vars, ana_vars, cb_order, outcome >>

\* A faulty join that returns while do_analysis is still running.
JoinDetached(pc) == TRUE

\* g_analysis_thread->join() returns once do_analysis has returned.
JoinReturns(pc) == pc = "exited"

\* stop_analysis_thread(): join, then g_analysis_thread.reset(), return.
StopJoin ==
  /\ Running /\ mpc = "stop_join"
  /\ JoinReturns(wpc)
  /\ g_analysis_thread' = FALSE
  /\ mpc' = "done"
  /\ UNCHANGED << queue_vars, server, caller_vars, wpc,
                  batch_vars, ana_vars, cb_order, outcome >>

\* ------------------------------------------------------ caller threads
\* A faulty guard that never refuses a request.
PostAlways(keep) == TRUE

\* The guard of post_analysis: it throws unless g_keep_analyzing.
PostAccepts(keep) == keep

\* A faulty enqueue at the front of the deque.
EnqueueFront(queue, c) == << c >> \o queue

\* g_simple_ana_queue.push_back( input ).
Enqueue(queue, c) == Append(queue, c)

\* post_analysis(), the block under the queue mutex.  A request built by
\* AnalysisGui carries wApp->sessionId(), which needs a started server;
\* the command-line, REST and no-JavaScript callers leave wt_app_id empty
\* and already hold their private ana_mutex.
PostAnalysis(c) ==
  /\ Running /\ cpc[c] = "idle"
  /\ \A b \in Callers : b < c => cpc[b] # "idle"
  /\ \E id \in {"", "session"} :
       /\ id = "session" => mpc = "serving"
       /\ IF PostAccepts(g_keep_analyzing)
            THEN /\ g_simple_ana_queue' = Enqueue(g_simple_ana_queue, c)
                 /\ accepted' = Append(accepted, c)
                 /\ wt_app_id' = [wt_app_id EXCEPT ![c] = id]
                 /\ cpc' = [cpc EXCEPT ![c] = "notify"]
            ELSE /\ cpc' = [cpc EXCEPT ![c] = "rejected"]
                 /\ UNCHANGED << g_simple_ana_queue, accepted, wt_app_id >>
  /\ UNCHANGED << g_keep_analyzing, g_analysis_thread, server, mpc,
                  wpc, batch_vars, ana_vars, cb_order, outcome >>

\* post_analysis(): g_ana_queue_cv.notify_all() after the mutex is released;
\* a synchronous caller then blocks in ana_cv.wait( lock ).
PostNotify(c) ==
  /\ Running /\ cpc[c] = "notify"
  /\ wpc' = NotifiedWorker(wpc)
  /\ mpc' = NotifiedMain(mpc)
  /\ cpc' = [cpc EXCEPT ![c] = IF wt_app_id[c] = "" THEN "wait" ELSE "done"]
  /\ UNCHANGED << queue_vars, g_analysis_thread, server, wt_app_id, accepted,
                  batch_vars, ana_vars, cb_order, outcome >>

\* ana_cv.wait( lock ) has no predicate: a spurious wake-up lets the
\* synchronous caller go on before its callback ran.
CallerSpuriousWake(c) ==
  /\ Running /\ cpc[c] = "wait"
  /\ cpc' = [cpc EXCEPT ![c] = "early"]
  /\ UNCHANGED << queue_vars, g_analysis_thread, server, mpc, wt_app_id,
                  accepted, wpc, batch_vars, ana_vars, cb_order,
                  outcome >>

\* ------------------------------------------------- the worker: do_analysis
\* The exit test made under the queue mutex, before waiting and after a batch.
ShouldStop(keep, queue) == ~keep /\ queue = << >>

\* do_analysis, top of the loop: break, or g_ana_queue_cv.wait( queue_lock )
\* with no predicate.
WorkerTop ==
  /\ wpc = "top"
  /\ wpc' = IF ShouldStop(g_keep_analyzing, g_simple_ana_queue)
            THEN "exit_notify" ELSE "wait"
  /\ UNCHANGED << queue_vars, g_analysis_thread, server, mpc, caller_vars,
                  batch_vars, ana_vars, cb_order, outcome >>

\* A spurious wake-up of the worker's wait.
WorkerSpuriousWake ==
  /\ wpc = "wait"
  /\ wpc' = "woken"
  /\ UNCHANGED << queue_vars, g_analysis_thread, server, mpc, caller_vars,
                  batch_vars, ana_vars, cb_order, outcome >>

\* ana_to_do.insert( end(ana_to_do), begin(queue), end(queue) ).
DrainOrder(queue) == queue

NextBatch == 1 + Cardinality({ c \in Callers : batch_of[c] > 0 })

\* do_analysis, after the wait: the whole queue becomes the batch.
WorkerDrain ==
  /\ wpc = "woken"
  /\ ana_to_do' = DrainOrder(g_simple_ana_queue)
  /\ batch_of' = [ c \in Callers |->
                     IF c \in SeqToSet(g_simple_ana_queue) THEN NextBatch
                     ELSE batch_of[c] ]
  /\ g_simple_ana_queue' = << >>
  /\ wpc' = "dispatch"
  /\ UNCHANGED << g_keep_analyzing, g_analysis_thread, server, mpc,
                  caller_vars, ana_vars, cb_order, outcome >>

StrategyEntry(type) ==
  CASE type = "Simple" -> "simple_validate"
    [] type = "Search" -> "search_validate"
    [] type = "Portal" -> "portal_init"

\* The AnalysisOutput each strategy starts from; do_portal_analysis pushes
\* its under-development warning before the try block.
StartOutput(type) ==
  [ NewOutput EXCEPT !.analysis_warnings =
                       IF type = "Portal" THEN {"under_development"} ELSE {} ]

\* do_analysis, the for loop over ana_to_do and its switch on analysis_type.
WorkerDispatch ==
  /\ wpc = "dispatch"
  /\ IF ana_to_do = << >>
       THEN /\ wpc' = "check"
            /\ UNCHANGED ana_vars
       ELSE \E type \in AnalysisTypes :
              /\ cur_type' = type
              /\ result' = StartOutput(type)
              /\ threw' = FALSE
              /\ calls' = << >>
              /\ do_reset_ana' = FALSE
              /\ windows' = 0
              /\ wpc' = StrategyEntry(type)
              /\ UNCHANGED << g_gad, engine_search, data_vars >>
  /\ UNCHANGED << queue_vars, g_analysis_thread, server, mpc, caller_vars,
                  batch_vars, cb_order, outcome >>

\* do_analysis, the test after the batch.
WorkerCheck ==
  /\ wpc = "check"
  /\ wpc' = IF ShouldStop(g_keep_analyzing, g_simple_ana_queue)
            THEN "exit_notify" ELSE "top"
  /\ UNCHANGED << queue_vars, g_analysis_thread, server, mpc, caller_vars,
                  batch_vars, ana_vars, cb_order, outcome >>

\* do_analysis, after the loop: g_ana_queue_cv.notify_all(), then return.
WorkerExit ==
  /\ wpc = "exit_notify"
  /\ mpc' = NotifiedMain(mpc)
  /\ wpc' = "exited"
  /\ UNCHANGED << queue_vars, g_analysis_thread, server, caller_vars,
                  batch_vars, ana_vars, cb_order, outcome >>

\* Everything the strategies leave alone: they run on the worker thread and
\* touch neither the queue nor the other threads.
WorkerOnly ==
  UNCHANGED << queue_vars, g_analysis_thread, server, mpc, caller_vars,
               batch_vars, cb_order, outcome, data_vars >>

\* ------------------------------------------------ engine configuration cache
\* Channel counts of the spectra a simple or search request carries.
ChannelCounts == {1024}

\* A faulty init_gadras_drf_calibrated without the comparison against the
\* cached record: the engine is initialized for every request.
InitCalibratedAlways(gad, drf, nchannel, rval) ==
  [ rval |-> rval, called |-> TRUE,
    gad |-> IF rval = 0
              THEN [ gad EXCEPT !.drf = drf, !.nchannel = nchannel,
                                !.calibrated = TRUE ]
              ELSE [ gad EXCEPT !.drf = "", !.nchannel = -1,
                                !.calibrated = FALSE ] ]

\* init_gadras_drf_calibrated( drf, nchannel ); rval is what the engine's
\* InitializeIsotopeIdCalibrated returns if it is called.
InitGadrasDrfCalibrated(gad, drf, nchannel, rval) ==
  IF gad.drf = drf /\ gad.nchannel = nchannel /\ gad.calibrated = TRUE
    THEN [ rval |-> 0, gad |-> gad, called |-> FALSE ]
    ELSE [ rval |-> rval, called |-> TRUE,
           gad |-> IF rval = 0
                     THEN [ gad EXCEPT !.drf = drf, !.nchannel = nchannel,
                                       !.calibrated = TRUE ]
                     ELSE [ gad EXCEPT !.drf = "", !.nchannel = -1,
                                       !.calibrated = FALSE ] ]

\* A faulty init_gadras_drf_raw that keeps the cached record when the
\* engine refuses the configuration.
InitRawKeepsRecord(gad, drf, nchannel, num_detectors, cal_type, rval) ==
  IF /\ gad.drf = drf /\ gad.nchannel = nchannel /\ gad.calibrated = FALSE
     /\ gad.num_detectors = num_detectors /\ gad.cal_adjust = cal_type
    THEN [ rval |-> 0, gad |-> gad, called |-> FALSE ]
    ELSE [ rval |-> rval, called |-> TRUE,
           gad |-> IF rval = 0
                     THEN [ drf |-> drf, nchannel |-> nchannel,
                            calibrated |-> FALSE,
                            num_detectors |-> num_detectors,
                            cal_adjust |-> cal_type ]
                     ELSE gad ]

\* init_gadras_drf_raw( drf, nchannel, num_detectors, cal_type ).
InitGadrasDrfRaw(gad, drf, nchannel, num_detectors, cal_type, rval) ==
  IF /\ gad.drf = drf /\ gad.nchannel = nchannel /\ gad.calibrated = FALSE
     /\ gad.num_detectors = num_detectors /\ gad.cal_adjust = cal_type
    THEN [ rval |-> 0, gad |-> gad, called |-> FALSE ]
    ELSE [ rval |-> rval, called |-> TRUE,
           gad |-> IF rval = 0
                     THEN [ drf |-> drf, nchannel |-> nchannel,
                            calibrated |-> FALSE,
                            num_detectors |-> num_detectors,
                            cal_adjust |-> cal_type ]
                     ELSE GadUninitialized ]

\* A faulty check_init_results that lets every status through.
CheckInitNeverThrows(status) == FALSE

\* check_init_results( status ) throws for every negative status.
CheckInitThrows(status) == status < 0

\* The catch block of a strategy: result.error_message = e.what().
Caught(res) == [ res EXCEPT !.error_message = TRUE ]

\* A faulty strategy with no catch block: the exception leaves do_analysis.
ThrowEscapes(guard) == "crashed"

\* Where the worker goes when a strategy's try block throws: stack unwinding
\* runs the destructor of a live DoWorkOnDestruct before the catch block.
AfterThrow(guard) == IF guard THEN "search_reset" ELSE "deliver"

\* The result as the throw leaves it: the catch block runs at once unless
\* the guard's destructor runs first.
OnThrow(res, guard) == IF guard THEN res ELSE Caught(res)

\* --------------------------------------------------- do_simple_analysis
\* The checks made before the engine is initialized (input pointer, number
\* of measurements, source types, channel count): any of them throws.
SimpleValidate ==
  /\ wpc = "simple_validate"
  /\ \E valid \in BOOLEAN :
       IF valid
         THEN wpc' = "simple_init" /\ UNCHANGED << result, threw >>
         ELSE /\ threw' = TRUE
              /\ result' = Caught(result)
              /\ wpc' = AfterThrow(do_reset_ana)
  /\ UNCHANGED << g_gad, engine_search, cur_type, calls, do_reset_ana, windows >>
  /\ WorkerOnly

\* init_gadras_drf_calibrated, result.gadras_intialization_error = init_code,
\* check_init_results( init_code ).
SimpleInit ==
  /\ wpc = "simple_init"
  /\ \E drf \in DRFs, nchannel \in ChannelCounts, code \in InitStatus :
       LET r == InitGadrasDrfCalibrated(g_gad, drf, nchannel, code) IN
         /\ g_gad' = r.gad
         /\ IF CheckInitThrows(r.rval)
              THEN /\ threw' = TRUE
                   /\ result' = Caught([ result EXCEPT
                                   !.gadras_intialization_error = r.rval ])
                   /\ wpc' = AfterThrow(do_reset_ana)
              ELSE /\ result' = [ result EXCEPT
                                   !.gadras_intialization_error = r.rval ]
                   /\ wpc' = "simple_prepare"
                   /\ UNCHANGED threw
  /\ UNCHANGED << engine_search, cur_type, calls, do_reset_ana, windows >>
  /\ WorkerOnly

\* Between initialization and the analysis call: more input checks that
\* throw, the synthesized-background warning, or the K40 calibration check.
SimplePrepare ==
  /\ wpc = "simple_prepare"
  /\ \E path \in {"invalid", "no_background", "skip_check", "check"} :
       CASE path = "invalid" ->
              /\ threw' = TRUE
              /\ result' = Caught(result)
              /\ wpc' = AfterThrow(do_reset_ana)
         [] path = "check" ->
              /\ wpc' = "simple_k40"
              /\ UNCHANGED << result, threw >>
         [] OTHER ->
              /\ result' = Warn(result, IF path = "no_background"
                                          THEN "synthesized"
                                          ELSE "k40_not_tried")
              /\ wpc' = "simple_static"
              /\ UNCHANGED threw
  /\ UNCHANGED << g_gad, engine_search, cur_type, calls, do_reset_ana, windows >>
  /\ WorkerOnly

\* g_RebinUsingK40 on the background and the optional refit of the gain; a
\* failure of the fit is caught locally and becomes a warning.
SimpleK40 ==
  /\ wpc = "simple_k40"
  /\ \E o \in {"in_place", "skipped", "failed", "refit", "refit_threw"} :
       result' = IF o \in {"in_place", "refit"} THEN result
                 ELSE Warn(result, K40Warning(o))
  /\ wpc' = "simple_static"
  /\ UNCHANGED << g_gad, engine_search, cur_type, threw, calls, do_reset_ana,
                  windows >>
  /\ WorkerOnly

\* static_isotope_id, result.gadras_analysis_error = call_stat, the throw on
\* a negative status, and the post-processing of the isotope arrays, which
\* throws on a size mismatch before clear_isotope_id_results is reached.
SimpleStatic ==
  /\ wpc = "simple_static"
  /\ \E call_stat \in EngineStatus, mismatch \in BOOLEAN :
       /\ call_stat < 0 => ~mismatch
       /\ IF call_stat < 0 \/ mismatch
            THEN /\ threw' = TRUE
                 /\ result' = Caught([ result EXCEPT
                                 !.gadras_analysis_error = call_stat ])
                 /\ wpc' = AfterThrow(do_reset_ana)
            ELSE /\ result' = [ result EXCEPT
                                 !.gadras_analysis_error = call_stat ]
                 /\ wpc' = "deliver"
                 /\ UNCHANGED threw
  /\ UNCHANGED << g_gad, engine_search, cur_type, calls, do_reset_ana, windows >>
  /\ WorkerOnly

\* --------------------------------------------------- do_search_analysis
\* The checks before initialization: input pointer, a valid calibration of
\* at least 32 channels, at least one background sample.
SearchValidate ==
  /\ wpc = "search_validate"
  /\ \E valid \in BOOLEAN :
       IF valid
         THEN wpc' = "search_init" /\ UNCHANGED << result, threw >>
         ELSE /\ threw' = TRUE
              /\ result' = OnThrow(result, do_reset_ana)
              /\ wpc' = AfterThrow(do_reset_ana)
  /\ UNCHANGED << g_gad, engine_search, cur_type, calls, do_reset_ana, windows >>
  /\ WorkerOnly

\* init_gadras_drf_raw( drf_folder, nchannels, ndet, K40 ) and
\* check_init_results( init_code ).
SearchInit ==
  /\ wpc = "search_init"
  /\ \E drf \in DRFs, nchannel \in ChannelCounts, ndet \in NumDets,
        code \in InitStatus :
       LET r == InitGadrasDrfRaw(g_gad, drf, nchannel, ndet, "K40", code) IN
         /\ g_gad' = r.gad
         /\ IF CheckInitThrows(r.rval)
              THEN /\ threw' = TRUE
                   /\ result' = OnThrow([ result EXCEPT
                                   !.gadras_intialization_error = r.rval ],
                                   do_reset_ana)
                   /\ wpc' = AfterThrow(do_reset_ana)
              ELSE /\ result' = [ result EXCEPT
                                   !.gadras_intialization_error = r.rval ]
                   /\ wpc' = "search_initialize"
                   /\ UNCHANGED threw
  /\ UNCHANGED << engine_search, cur_type, calls, do_reset_ana, windows >>
  /\ WorkerOnly

\* fill_inputs( background_samples ) and g_StreamingSearch( ..., INITIALIZE ).
SearchInitialize ==
  /\ wpc = "search_initialize"
  /\ calls' = Append(calls, "INITIALIZE")
  /\ \E call_stat \in EngineStatus :
       IF call_stat < 0
         THEN /\ threw' = TRUE
              /\ result' = OnThrow([ result EXCEPT
                              !.gadras_analysis_error = call_stat ],
                              do_reset_ana)
              /\ wpc' = AfterThrow(do_reset_ana)
              /\ UNCHANGED engine_search
         ELSE /\ engine_search' = "initialized"
              /\ wpc' = "search_background"
              /\ UNCHANGED << result, threw >>
  /\ UNCHANGED << g_gad, cur_type, do_reset_ana, windows >>
  /\ WorkerOnly

\* g_StreamingSearch( ..., ANALYZE ) on the background, zero_inputs(), and
\* only then the construction of the do_reset_ana guard.
SearchBackground ==
  /\ wpc = "search_background"
  /\ calls' = Append(calls, "ANALYZE")
  /\ \E call_stat \in EngineStatus :
       IF call_stat < 0
         THEN /\ threw' = TRUE
              /\ result' = OnThrow([ result EXCEPT
                              !.gadras_analysis_error = call_stat ],
                              do_reset_ana)
              /\ wpc' = AfterThrow(do_reset_ana)
              /\ UNCHANGED do_reset_ana
         ELSE /\ do_reset_ana' = TRUE
              /\ wpc' = "search_window"
              /\ UNCHANGED << result, threw >>
  /\ UNCHANGED << g_gad, engine_search, cur_type, windows >>
  /\ WorkerOnly

\* One pass of the loop over the foreground windows: a logic error thrown
\* while forming the window, the ANALYZE call on the window, or the end of
\* the loop followed by the result post-processing up to the end of the try
\* block (result.gadras_analysis_error = 0).
SearchWindow ==
  /\ wpc = "search_window"
  /\ \E step \in {"logic_error", "analyze", "finish"} :
       CASE step = "logic_error" ->
              /\ threw' = TRUE
              /\ result' = OnThrow(result, do_reset_ana)
              /\ wpc' = AfterThrow(do_reset_ana)
              /\ UNCHANGED << calls, windows >>
         [] step = "analyze" ->
              /\ windows < MaxWindows
              /\ \E call_stat \in EngineStatus :
                   IF call_stat < 0
                     THEN /\ threw' = TRUE
                          /\ result' = OnThrow([ result EXCEPT
                                          !.gadras_analysis_error = call_stat ],
                                          do_reset_ana)
                          /\ wpc' = AfterThrow(do_reset_ana)
                          /\ calls' = Append(calls, "ANALYZE")
                          /\ UNCHANGED windows
                     ELSE /\ windows' = windows + 1
                          /\ calls' = Append(calls, "ANALYZE")
                          /\ wpc' = "search_window"
                          /\ UNCHANGED << result, threw >>
         [] step = "finish" ->
              /\ windows >= 1
              /\ result' = Warn([ result EXCEPT
                                      !.gadras_analysis_error = 0 ],
                                    "display_not_updated")
              /\ wpc' = "search_reset"
              /\ UNCHANGED << threw, calls, windows >>
  /\ UNCHANGED << g_gad, engine_search, cur_type, do_reset_ana >>
  /\ WorkerOnly

\* ~DoWorkOnDestruct of do_reset_ana: g_StreamingSearch( ..., RESET ); when
\* it runs during unwinding the catch block follows.
SearchReset ==
  /\ wpc = "search_reset"
  /\ calls' = Append(calls, "RESET")
  /\ engine_search' = "idle"
  /\ do_reset_ana' = FALSE
  /\ result' = IF threw THEN Caught(result) ELSE result
  /\ wpc' = "deliver"
  /\ UNCHANGED << g_gad, cur_type, threw, windows >>
  /\ WorkerOnly

\* --------------------------------------------------- do_portal_analysis
\* init_gadras_drf_calibrated( drf_rel_path, nchannels_dummy = 0 ).
PortalInit ==
  /\ wpc = "portal_init"
  /\ \E drf \in DRFs, code \in InitStatus :
       LET r == InitGadrasDrfCalibrated(g_gad, drf, 0, code) IN
         /\ g_gad' = r.gad
         /\ IF CheckInitThrows(r.rval)
              THEN /\ threw' = TRUE
                   /\ result' = OnThrow([ result EXCEPT
                                   !.gadras_intialization_error = r.rval ],
                                   do_reset_ana)
                   /\ wpc' = AfterThrow(do_reset_ana)
              ELSE /\ result' = [ result EXCEPT
                                   !.gadras_intialization_error = r.rval ]
                   /\ wpc' = "portal_prepare"
                   /\ UNCHANGED threw
  /\ UNCHANGED << engine_search, cur_type, calls, do_reset_ana, windows >>
  /\ WorkerOnly

\* The database file, the input pointer and the temporary PCF file: each
\* check throws when it fails.
PortalPrepare ==
  /\ wpc = "portal_prepare"
  /\ \E valid \in BOOLEAN :
       IF valid
         THEN wpc' = "portal_call" /\ UNCHANGED << result, threw >>
         ELSE /\ threw' = TRUE
              /\ result' = OnThrow(result, do_reset_ana)
              /\ wpc' = AfterThrow(do_reset_ana)
  /\ UNCHANGED << g_gad, engine_search, cur_type, calls, do_reset_ana, windows >>
  /\ WorkerOnly

\* g_PortalIsotopeIDCInterface; a negative status throws before
\* result.gadras_analysis_error is assigned.
PortalCall ==
  /\ wpc = "portal_call"
  /\ \E call_stat \in EngineStatus :
       IF call_stat < 0
         THEN /\ threw' = TRUE
              /\ result' = OnThrow(result, do_reset_ana)
              /\ wpc' = AfterThrow(do_reset_ana)
         ELSE /\ result' = [ result EXCEPT !.gadras_analysis_error = call_stat ]
              /\ wpc' = "deliver"
              /\ UNCHANGED threw
  /\ UNCHANGED << g_gad, engine_search, cur_type, calls, do_reset_ana, windows >>
  /\ WorkerOnly

\* ------------------------------------------------- delivery of the result
\* The branch taken after the try/catch of each strategy:
\*   server && !wt_app_id.empty()  ->  server->post( wt_app_id, ... )
\*   wt_app_id.empty()             ->  callback( result ) on the worker
\*   otherwise                     ->  only an error is logged.
DeliveryRoute(has_server, id) ==
  IF has_server /\ id # "" THEN "post"
  ELSE IF id = "" THEN "call" ELSE "drop"

\* What callback( result ) run on the worker thread can do.  It copies the
\* AnalysisOutput into the caller's variable and may throw doing so; when
\* the caller left its wait early the callback's references dangle, and the
\* call either goes through or faults.  Nothing catches either.
CallbackOutcomes(pc) ==
  IF pc = "early" THEN {"returns", "faults"} ELSE {"returns", "throws"}

\* The locals of the strategy function go out of scope.
LocalsGone ==
  /\ cur_type' = "Simple"
  /\ result' = NewOutput
  /\ threw' = FALSE
  /\ calls' = << >>
  /\ windows' = 0
  /\ SetLocals(NoLocals)
  /\ UNCHANGED << g_gad, engine_search, do_reset_ana, prev_request, still_vars >>

\* The strategy returns to the for loop of do_analysis.
Finished(r) ==
  /\ ana_to_do' = Tail(ana_to_do)
  /\ outcome' = [outcome EXCEPT ![r] = IF threw THEN "failed" ELSE "ok"]
  /\ wpc' = "dispatch"
  /\ LocalsGone
  /\ UNCHANGED batch_of

\* The code after the catch block of do_simple_analysis, do_search_analysis
\* and do_portal_analysis.  A synchronous callback locks the caller's
\* ana_mutex, which the caller holds until it is inside ana_cv.wait.
Deliver ==
  /\ wpc = "deliver"
  /\ LET r     == Head(ana_to_do)
         route == DeliveryRoute(server, wt_app_id[r])
     IN CASE route = "post" ->
               /\ cb_order' = Append(cb_order, r)
               /\ Finished(r)
               /\ UNCHANGED cpc
          [] route = "drop" ->
               /\ Finished(r)
               /\ UNCHANGED << cb_order, cpc >>
          [] route = "call" ->
               /\ cpc[r] \in {"wait", "early"}
               /\ cb_order' = Append(cb_order, r)
               /\ \E o \in CallbackOutcomes(cpc[r]) :
                    IF o = "returns"
                      THEN /\ Finished(r)
                           /\ cpc' = [cpc EXCEPT ![r] =
                                        IF @ = "wait" THEN "done" ELSE @]
                      ELSE /\ wpc' = "crashed"
                           /\ LocalsGone
                           /\ UNCHANGED << cpc, batch_vars, outcome >>
  /\ UNCHANGED << queue_vars, g_analysis_thread, server, mpc, wt_app_id,
                  accepted >>

\* ------------------------------------------------------------------- Next
MainStep ==
  \/ StartSetFlag
  \/ StartCreateThread
  \/ StartServer
  \/ InfoResourceDone
  \/ KillServer
  \/ StopBegin

StopStep ==
  \/ StopSetFlag
  \/ StopNotify
  \/ StopPred
  \/ StopJoin

LoopStep ==
  \/ WorkerTop
  \/ WorkerDrain
  \/ WorkerDispatch
  \/ WorkerCheck
  \/ WorkerExit

SimpleStep ==
  \/ SimpleValidate
  \/ SimpleInit
  \/ SimplePrepare
  \/ SimpleK40
  \/ SimpleStatic

SearchStep ==
  \/ SearchValidate
  \/ SearchInit
  \/ SearchInitialize
  \/ SearchBackground
  \/ SearchWindow
  \/ SearchReset

PortalStep ==
  \/ PortalInit
  \/ PortalPrepare
  \/ PortalCall

\* Every step the worker thread takes of its own accord.
WorkerStep == LoopStep \/ SimpleStep \/ SearchStep \/ PortalStep \/ Deliver

SpuriousWake ==
  \/ StopSpuriousWake
  \/ WorkerSpuriousWake
  \/ \E c \in Callers : CallerSpuriousWake(c)

Next ==
  \/ MainStep
  \/ StopStep
  \/ \E c \in Callers : PostAnalysis(c)
  \/ \E c \in Callers : PostNotify(c)
  \/ WorkerStep
  \/ SpuriousWake

Spec == Init /\ [][Next]_vars

\* ================================================== the data of a request
\* DataSpec follows the worker through one batch with the data of each
\* request in the state: what Spec leaves to a free choice (is the input
\* valid, which windows are formed, is a spectrum rebinned) is computed here
\* from the spectrum set, as the strategy computes it.  The batch has been
\* drained, its callers are synchronous and wait for their callbacks, and
\* no other thread takes a step.

\* Largest number of measurements (simple) or samples (search) of an input.
MaxSamples == 3

\* Detector response folders of DataSpec.
DataDRFs == {"drfA", "drfB"}

\* A positive status is in no table of the engine; init_gadras_drf_* treat
\* it as a failure, check_init_results does not.
InitReturns == InitStatus \cup {1}

\* ( real_time < 0.425f ), in milliseconds.
WindowRealTime == 425

\* ( longest_background_rt > 55.0f ), in milliseconds.
LongBackgroundRealTime == 55000

Files(kinds) == UNION { [ 1..n -> kinds ] : n \in 0..MaxSamples }

SimpleKinds ==
  { Meas("Foreground", 100000, Cal1), Meas("Foreground", 100000, InvalidCal),
    Meas("Background", 100000, Cal1), Meas("Background", 100000, Cal2),
    Meas("Background", 100000, Cal3), Meas("Background", 100000, InvalidCal) }

SearchKinds ==
  { Meas("Background", 120000, Cal1), Meas("Foreground", 100, Cal1),
    Meas("Foreground", 100, Cal2), Meas("Foreground", 100, Cal3),
    Meas("Foreground", 0, Cal1), Meas("Foreground", 100, InvalidCal) }

\* Sample 1 a background of 120 s, samples 2..10 foreground of 0.1 s each.
ScenarioC ==
  [ i \in 1..10 |-> IF i = 1 THEN Meas("Background", 120000, Cal1)
                    ELSE Meas("Foreground", 100, Cal1) ]

SimpleInputs ==
  [ drf_folder : DataDRFs, nchannel : {16, 64}, ndet : {1},
    file : Files(SimpleKinds) ]

SearchInputs ==
  [ drf_folder : DataDRFs, nchannel : {16, 1024}, ndet : {1, 2},
    file : Files(SearchKinds) \cup {ScenarioC} ]

PortalInputs ==
  [ drf_folder : DataDRFs, nchannel : {1024}, ndet : {1},
    file : { << Meas("Foreground", 100, InvalidCal) >>,
             << Meas("Background", 120000, Cal1),
                Meas("Foreground", 100, Cal1) >> } ]

Inputs(type) ==
  CASE type = "Simple" -> SimpleInputs
    [] type = "Search" -> SearchInputs
    [] type = "Portal" -> PortalInputs

DataEntry(type) ==
  CASE type = "Simple" -> "simple_check"
    [] type = "Search" -> "search_scan"
    [] type = "Portal" -> "portal_init_cal"

\* result.spec_file = input.input at the top of do_search_analysis and
\* do_portal_analysis; do_simple_analysis leaves it unset.
StartSpecFile(type) == IF type = "Simple" THEN "unset" ELSE "input"

\* The state Spec reaches by start_analysis_thread, MaxReq synchronous
\* post_analysis calls and the worker's first drain.
DataInit ==
  /\ g_keep_analyzing = TRUE
  /\ g_analysis_thread = TRUE
  /\ g_simple_ana_queue = << >>
  /\ g_gad = GadUninitialized
  /\ g_gad_app_folder = DefaultAppDir
  /\ high_conf_isotopes = {} /\ medium_conf_isotopes = {}
  /\ response = [ c \in Callers |-> NoResponse ]
  /\ engine_search = "idle"
  /\ server = FALSE
  /\ mpc = "run"
  /\ cpc = [ c \in Callers |-> "wait" ]
  /\ wt_app_id = [ c \in Callers |-> "" ]
  /\ accepted = [ i \in 1..MaxReq |-> i ]
  /\ wpc = "dispatch"
  /\ ana_to_do = [ i \in 1..MaxReq |-> i ]
  /\ batch_of = [ c \in Callers |-> 1 ]
  /\ cur_type = "Simple"
  /\ result = NewOutput
  /\ threw = FALSE
  /\ calls = << >>
  /\ do_reset_ana = FALSE
  /\ windows = 0
  /\ cb_order = << >>
  /\ outcome = [ c \in Callers |-> "none" ]
  /\ NoData
  /\ NoCalls

\* Everything a strategy step of DataSpec leaves alone besides its locals.
DataOnly ==
  UNCHANGED << queue_vars, g_analysis_thread, server, mpc, caller_vars,
               batch_vars, cb_order, outcome, cur_type, windows >>

\* do_analysis, the for loop over ana_to_do and its switch, with the input
\* the caller enqueued.
DataDispatch ==
  /\ wpc = "dispatch"
  /\ ana_to_do # << >>
  /\ \E type \in AnalysisTypes : \E inp \in Inputs(type) :
       /\ cur_type' = type
       /\ result' = StartOutput(type)
       /\ SetLocals([ NoLocals EXCEPT !.input = inp, !.input_file = inp.file,
                                      !.spec_file = StartSpecFile(type) ])
       /\ wpc' = DataEntry(type)
  /\ threw' = FALSE
  /\ calls' = << >>
  /\ do_reset_ana' = FALSE
  /\ UNCHANGED << queue_vars, g_analysis_thread, server, mpc, caller_vars,
                  batch_vars, cb_order, outcome, windows, g_gad,
                  engine_search, prev_request, still_vars >>

\* The step a throw inside the try block of a strategy takes.
Throw(res) ==
  /\ threw' = TRUE
  /\ result' = OnThrow(res, do_reset_ana)
  /\ wpc' = AfterThrow(do_reset_ana)

\* The configuration tuple a request asks the engine to be initialized for.
RequestedConfig(type, inp) ==
  CASE type = "Simple" ->
         [ drf |-> inp.drf_folder, nchannel |-> inp.nchannel,
           mode |-> "calibrated", ndet |-> 0 ]
    [] type = "Search" ->
         [ drf |-> inp.drf_folder, nchannel |-> inp.nchannel,
           mode |-> "raw", ndet |-> inp.ndet ]
    [] type = "Portal" ->
         [ drf |-> inp.drf_folder, nchannel |-> 0,
           mode |-> "calibrated", ndet |-> 0 ]

\* The initialization a strategy asks for, by the function it calls.
InitGadrasDrf(gad, type, inp, rval) ==
  IF type = "Search"
    THEN InitGadrasDrfRaw(gad, inp.drf_folder, inp.nchannel, inp.ndet,
                          "K40", rval)
    ELSE InitGadrasDrfCalibrated(gad, inp.drf_folder,
                                 RequestedConfig(type, inp).nchannel, rval)

InitFunction(type) ==
  IF type = "Search" THEN "InitializeIsotopeIdRaw"
  ELSE "InitializeIsotopeIdCalibrated"

\* init_code = init_gadras_drf_...( ... ); result.gadras_intialization_error
\* = init_code; check_init_results( init_code ): the three lines every
\* strategy has.
DataInitEngine(next) ==
  \E code \in InitReturns :
    LET r   == InitGadrasDrf(g_gad, cur_type, input, code)
        res == [ result EXCEPT !.gadras_intialization_error = r.rval ]
    IN /\ g_gad' = r.gad
       /\ calls' = IF r.called THEN Append(calls, InitFunction(cur_type))
                   ELSE calls
       /\ prev_request' = [ config |-> RequestedConfig(cur_type, input),
                            ok |-> r.rval = 0 ]
       /\ UNCHANGED still_vars
       /\ IF CheckInitThrows(r.rval)
            THEN Throw(res)
            ELSE result' = res /\ wpc' = next /\ UNCHANGED threw

\* ------------------------------------ do_simple_analysis on the data
Foregrounds(file) ==
  { i \in DOMAIN file : file[i].source_type = "Foreground" }

Backgrounds(file) ==
  { i \in DOMAIN file : file[i].source_type = "Background" }

\* The throws before the engine is initialized: the number of measurements,
\* of foregrounds, of backgrounds, and the channel count.
SimpleCheckThrows(inp) ==
  \/ Len(inp.file) \notin {1, 2}
  \/ Cardinality(Foregrounds(inp.file)) # 1
  \/ Cardinality(Backgrounds(inp.file)) > 1
  \/ inp.nchannel < 32
  \/ inp.nchannel > 64 * 1024

SimpleCheck ==
  /\ wpc = "simple_check"
  /\ IF SimpleCheckThrows(input)
       THEN Throw(result)
       ELSE wpc' = "simple_init_cal" /\ UNCHANGED << result, threw >>
  /\ UNCHANGED << g_gad, engine_search, calls, do_reset_ana, data_vars >>
  /\ DataOnly

SimpleInitCal ==
  /\ wpc = "simple_init_cal"
  /\ DataInitEngine("simple_rebin")
  /\ UNCHANGED << engine_search, do_reset_ana, locals_vars >>
  /\ DataOnly

\* if( backcal && (forecal != backcal) ) and, inside it, the comparison of
\* type, coefficients and deviation pairs.
SimpleNeedsRebin(forecal, backcal) ==
  forecal.id # backcal.id /\ forecal.coefs # backcal.coefs

\* SpecFile::rebin_measurement( cal, m ): m gets cal and rebinned counts.
RebinMeasurement(file, i, cal) ==
  [ file EXCEPT ![i] = [ @ EXCEPT !.cal = cal, !.counts = "rebinned" ] ]

\* The loop over input_file->measurements() calling set_energy_calibration
\* on every measurement of at least 32 channels.
SetEnergyCalibration(file, cal, nchannel) ==
  [ i \in DOMAIN file |->
      IF nchannel >= 32 THEN [ file[i] EXCEPT !.cal = cal ] ELSE file[i] ]

\* From the initialization to the rebinning of the background: the checks
\* of both calibrations, then input_file->rebin_measurement( forecal,
\* background ) where input_file is still input.input.
SimpleRebin ==
  /\ wpc = "simple_rebin"
  /\ LET f       == CHOOSE i \in Foregrounds(input_file) : TRUE
         bs      == Backgrounds(input_file)
         forecal == input_file[f].cal
     IN IF \/ ~CalValid(forecal)
           \/ \E b \in bs : ~CalValid(input_file[b].cal)
          THEN Throw(result) /\ UNCHANGED << input_file, rebinned >>
          ELSE /\ wpc' = "simple_recal"
               /\ UNCHANGED << result, threw >>
               /\ IF \E b \in bs : SimpleNeedsRebin(forecal, input_file[b].cal)
                    THEN /\ input_file' =
                              RebinMeasurement(input_file,
                                               CHOOSE b \in bs : TRUE, forecal)
                         /\ rebinned' = rebinned \cup {bs}
                    ELSE UNCHANGED << input_file, rebinned >>
  /\ UNCHANGED << g_gad, engine_search, calls, do_reset_ana, input, spec_file,
                  energy_cals, background_samples, sample_iter,
                  real_time_and_samples, prev_request, still_vars >>
  /\ DataOnly

\* What the K40 block can do: not tried, g_RebinUsingK40 returning 1, another
\* non-zero status, 0 with the centroid in place, or 0 followed by the refit
\* of the gain, which succeeds or throws inside its own try block.
K40Outcomes ==
  {"not_tried", "skipped", "failed", "in_place", "refit", "refit_threw"}

\* A faulty test that runs the K40 block without a background.
TriesK40Always(file) == TRUE

\* if( !background ) ... else: the K40 block is entered only with a
\* background.
TriesK40(file) == Backgrounds(file) # {}

\* A faulty catch block that reports the failed refit as an error of the
\* request as well.
RefitThrowFails(res) == Caught(Warn(res, K40Warning("refit_threw")))

\* catch( std::exception &e ) of the refit: a warning is pushed, nothing
\* else of the result changes.
RefitThrowCaught(res) == Warn(res, K40Warning("refit_threw"))

\* The synthesized-background warning, or the K40 block; a successful refit
\* sets the new calibration on the measurements of input_file, which is
\* still input.input, and only then copies the file into result.spec_file.
SimpleRecal ==
  /\ wpc = "simple_recal"
  /\ IF ~TriesK40(input_file)
       THEN /\ result' = Warn(result, "synthesized")
            /\ UNCHANGED << calls, input_file, spec_file >>
       ELSE \E o \in K40Outcomes :
              /\ calls' = IF o = "not_tried" THEN calls
                          ELSE Append(calls, "RebinUsingK40")
              /\ result' =
                   IF o = "refit_threw" THEN RefitThrowCaught(result)
                   ELSE IF o \in {"in_place", "refit"} THEN result
                   ELSE Warn(result, K40Warning(o))
              /\ IF o = "refit"
                   THEN /\ input_file' = SetEnergyCalibration(input_file,
                                             NewCal, input.nchannel)
                        /\ spec_file' = "copy"
                   ELSE UNCHANGED << input_file, spec_file >>
  /\ wpc' = "simple_call"
  /\ UNCHANGED << g_gad, engine_search, threw, do_reset_ana, input,
                  energy_cals, background_samples, sample_iter,
                  real_time_and_samples, rebinned, prev_request, still_vars >>
  /\ DataOnly

\* static_isotope_id and what follows it in the try block.
SimpleCall ==
  /\ wpc = "simple_call"
  /\ calls' = Append(calls, "StaticIsotopeID")
  /\ \E call_stat \in EngineStatus, mismatch \in BOOLEAN :
       /\ call_stat < 0 => ~mismatch
       /\ IF call_stat < 0 \/ mismatch
            THEN Throw([ result EXCEPT !.gadras_analysis_error = call_stat ])
            ELSE /\ result' = [ result EXCEPT
                                 !.gadras_analysis_error = call_stat ]
                 /\ wpc' = "deliver"
                 /\ UNCHANGED threw
  /\ UNCHANGED << g_gad, engine_search, do_reset_ana, data_vars >>
  /\ DataOnly

\* ------------------------------------ do_portal_analysis on the data
PortalInitCal ==
  /\ wpc = "portal_init_cal"
  /\ DataInitEngine("portal_analyze")
  /\ UNCHANGED << engine_search, do_reset_ana, locals_vars >>
  /\ DataOnly

\* The database file, the input pointer and the temporary PCF file, then
\* g_PortalIsotopeIDCInterface; the spectra are not looked at.
PortalAnalyze ==
  /\ wpc = "portal_analyze"
  /\ \E valid \in BOOLEAN, call_stat \in EngineStatus :
       IF ~valid
         THEN Throw(result) /\ UNCHANGED calls
         ELSE /\ calls' = Append(calls, "PortalIsotopeID")
              /\ IF call_stat < 0
                   THEN Throw(result)
                   ELSE /\ result' = [ result EXCEPT
                                        !.gadras_analysis_error = call_stat ]
                        /\ wpc' = "deliver"
                        /\ UNCHANGED threw
  /\ UNCHANGED << g_gad, engine_search, do_reset_ana, data_vars >>
  /\ DataOnly

\* ------------------------------------ do_search_analysis on the data
\* cal && cal->valid() && (m->num_gamma_channels() >= 32)
Usable(m, nchannel) == CalValid(m.cal) /\ nchannel >= 32

\* The first sample with a usable measurement, 0 if there is none.
FirstUsable(file, nchannel) ==
  IF \E i \in DOMAIN file : Usable(file[i], nchannel)
    THEN CHOOSE i \in DOMAIN file :
           /\ Usable(file[i], nchannel)
           /\ \A j \in DOMAIN file : Usable(file[j], nchannel) => i <= j
    ELSE 0

\* The loop over sample_numbers that fills energy_cals and
\* background_samples: search mode takes every sample up to and including
\* the first one with a usable measurement, and breaks there.
ScanBackground(file, nchannel) ==
  IF FirstUsable(file, nchannel) = 0 THEN DOMAIN file
  ELSE 1..FirstUsable(file, nchannel)

ScanCal(file, nchannel) ==
  IF FirstUsable(file, nchannel) = 0 THEN InvalidCal
  ELSE file[FirstUsable(file, nchannel)].cal

\* A faulty test that lets every input through to the initialization.
ScanNeverThrows(cal, nchannel, background) == FALSE

\* energy_cals.empty() || (nchannels < 32) || background_samples.empty()
ScanThrows(cal, nchannel, background) ==
  ~CalValid(cal) \/ nchannel < 32 \/ background = {}

\* The real_time_of_sample lambda.
RealTimeOfSample(file, nchannel, sample) ==
  IF Usable(file[sample], nchannel) THEN file[sample].real_time ELSE 0

\* With more than one background sample, the longest one replaces them all
\* if it is longer than 55 s and has data for every detector.
SelectBackground(file, nchannel, background) ==
  LET rt(s)  == RealTimeOfSample(file, nchannel, s)
      timed  == { s \in background : rt(s) > 0 }
      longer == { s \in timed : \A t \in timed : rt(t) <= rt(s) }
      first  == CHOOSE s \in longer : \A t \in longer : s <= t
  IN IF Cardinality(background) > 1 /\ timed # {}
        /\ rt(first) > LongBackgroundRealTime /\ nchannel >= 64
       THEN {first}
       ELSE background

SearchScan ==
  /\ wpc = "search_scan"
  /\ energy_cals' = ScanCal(input.file, input.nchannel)
  /\ background_samples' = ScanBackground(input.file, input.nchannel)
  /\ IF ScanThrows(energy_cals', input.nchannel, background_samples')
       THEN Throw(result)
       ELSE wpc' = "search_init_raw" /\ UNCHANGED << result, threw >>
  /\ UNCHANGED << g_gad, engine_search, calls, do_reset_ana, input,
                  input_file, spec_file, sample_iter, real_time_and_samples,
                  rebinned, prev_request, still_vars >>
  /\ DataOnly

\* init_gadras_drf_raw and check_init_results, then the choice of the
\* background sample.
SearchInitRaw ==
  /\ wpc = "search_init_raw"
  /\ DataInitEngine("search_start")
  /\ background_samples' =
       IF threw' THEN background_samples
       ELSE SelectBackground(input_file, input.nchannel, background_samples)
  /\ UNCHANGED << engine_search, do_reset_ana, input, input_file, spec_file,
                  energy_cals, sample_iter, real_time_and_samples, rebinned >>
  /\ DataOnly

\* The measurement h that fill_inputs works on: one sample's measurement, or
\* the sum of several, which sum_measurements puts on the calibration it is
\* given.
FillInputsCal(file, samples, cal) ==
  IF Cardinality(samples) > 1 THEN cal
  ELSE file[CHOOSE s \in samples : TRUE].cal

\* A faulty comparison of the calibrations by their values.
NeedsRebinByValue(hcal, grid) == hcal.coefs # grid.coefs

\* if( h->energy_calibration() != cal_of_summed ): shared_ptr comparison.
NeedsRebin(hcal, grid) == hcal.id # grid.id

\* fill_inputs skips a detector without a usable h; otherwise it rebins by
\* lower edge when NeedsRebin says so.
FillInputsRebins(file, nchannel, samples, grid) ==
  LET hcal == FillInputsCal(file, samples, grid)
  IN /\ CalValid(hcal) /\ nchannel >= 64
     /\ NeedsRebin(hcal, grid)

Rebinned(file, nchannel, samples, grid) ==
  IF FillInputsRebins(file, nchannel, samples, grid) THEN {samples} ELSE {}

\* fill_inputs( background_samples ), the INITIALIZE call, the ANALYZE call
\* on the background, zero_inputs() and the construction of do_reset_ana.
SearchStart ==
  /\ wpc = "search_start"
  /\ rebinned' = rebinned \cup Rebinned(input_file, input.nchannel,
                                       background_samples, energy_cals)
  /\ \E init_stat \in EngineStatus, back_stat \in EngineStatus :
       IF init_stat < 0
         THEN /\ calls' = Append(calls, "INITIALIZE")
              /\ Throw([ result EXCEPT !.gadras_analysis_error = init_stat ])
              /\ UNCHANGED << engine_search, do_reset_ana, sample_iter >>
         ELSE /\ calls' = calls \o << "INITIALIZE", "ANALYZE" >>
              /\ engine_search' = "initialized"
              /\ IF back_stat < 0
                   THEN /\ Throw([ result EXCEPT
                                    !.gadras_analysis_error = back_stat ])
                        /\ UNCHANGED << do_reset_ana, sample_iter >>
                   ELSE /\ do_reset_ana' = TRUE
                        /\ sample_iter' = 1
                        /\ wpc' = "search_windows"
                        /\ UNCHANGED << result, threw >>
  /\ UNCHANGED << g_gad, input, input_file, spec_file, energy_cals,
                  background_samples, real_time_and_samples, prev_request, still_vars >>
  /\ DataOnly

\* Where the loop that sums samples into a window starts: it declares its
\* own sample_iter = begin(sample_numbers).
InnerBegin(outer) == 1

\* The inner loop: from sample it, add non-background samples while the
\* real time is below 0.425 s and samples are left.
RECURSIVE SumSamples(_, _, _, _, _, _)
SumSamples(file, nchannel, background, it, real_time, samples) ==
  IF ~(real_time < WindowRealTime /\ it <= Len(file))
    THEN [ real_time |-> real_time, samples |-> samples ]
  ELSE IF it \in background
    THEN SumSamples(file, nchannel, background, it + 1, real_time, samples)
  ELSE SumSamples(file, nchannel, background, it + 1,
                  real_time + RealTimeOfSample(file, nchannel, it),
                  samples \cup {it})

\* A faulty test that ends the loop on every zero-second window.
ZeroWindowBreaks(outer, n) == FALSE

\* if( sample_iter != end(sample_numbers) ) throw, inside the body of the
\* outer loop, where sample_iter is the outer iterator.
ZeroWindowThrows(outer, n) == outer <= n

\* One pass of the outer loop: the window, its checks, fill_inputs, the
\* ANALYZE call and zero_inputs(); or the end of the loop.
SearchNextWindow ==
  /\ wpc = "search_windows"
  /\ LET n == Len(input_file)
         w == SumSamples(input_file, input.nchannel, background_samples,
                         InnerBegin(sample_iter), 0, {})
     IN IF sample_iter > n
          THEN /\ wpc' = "search_finish"
               /\ UNCHANGED << result, threw, calls, sample_iter,
                               real_time_and_samples, rebinned >>
        ELSE IF w.samples = {}
          THEN /\ Throw(result)
               /\ UNCHANGED << calls, sample_iter, real_time_and_samples,
                               rebinned >>
        ELSE IF w.real_time <= 0
          THEN /\ IF ZeroWindowThrows(sample_iter, n)
                    THEN Throw(result)
                    ELSE wpc' = "search_finish" /\ UNCHANGED << result, threw >>
               /\ UNCHANGED << calls, sample_iter, real_time_and_samples,
                               rebinned >>
        ELSE /\ real_time_and_samples' = Append(real_time_and_samples, w)
             /\ rebinned' = rebinned \cup Rebinned(input_file, input.nchannel,
                                                  w.samples, energy_cals)
             /\ calls' = Append(calls, "ANALYZE")
             /\ \E call_stat \in EngineStatus :
                  IF call_stat < 0
                    THEN /\ Throw([ result EXCEPT
                                     !.gadras_analysis_error = call_stat ])
                         /\ UNCHANGED sample_iter
                    ELSE /\ sample_iter' = sample_iter + 1
                         /\ wpc' = "search_windows"
                         /\ UNCHANGED << result, threw >>
  /\ UNCHANGED << g_gad, engine_search, do_reset_ana, input, input_file,
                  spec_file, energy_cals, background_samples, prev_request, still_vars >>
  /\ DataOnly

\* After the loop: the isotope summary, the filtering, the warnings and
\* result.gadras_analysis_error = 0; leaving the try block destroys
\* do_reset_ana.
SearchFinish ==
  /\ wpc = "search_finish"
  /\ result' = Warn([ result EXCEPT !.gadras_analysis_error = 0 ],
                    "display_not_updated")
  /\ wpc' = "search_reset"
  /\ UNCHANGED << g_gad, engine_search, threw, calls, do_reset_ana,
                  data_vars >>
  /\ DataOnly

\* ---------------------------------------------------------------- DataSpec
DataSimpleStep ==
  \/ SimpleCheck
  \/ SimpleInitCal
  \/ SimpleRebin
  \/ SimpleRecal
  \/ SimpleCall

DataSearchStep ==
  \/ SearchScan
  \/ SearchInitRaw
  \/ SearchStart
  \/ SearchNextWindow
  \/ SearchFinish
  \/ SearchReset

DataPortalStep ==
  \/ PortalInitCal
  \/ PortalAnalyze

DataNext ==
  \/ DataDispatch
  \/ DataSimpleStep
  \/ DataSearchStep
  \/ DataPortalStep
  \/ Deliver

DataSpec == DataInit /\ [][DataNext]_vars

\* ============================================================ properties
\* The request has been drained into a batch and the worker has left its
\* strategy function.
Completed(r) == batch_of[r] > 0 /\ r \notin SeqToSet(ana_to_do)

SameBatch(r1, r2) == batch_of[r1] > 0 /\ batch_of[r1] = batch_of[r2]

AcceptedBefore(r1, r2) ==
  /\ r1 \in SeqToSet(accepted) /\ r2 \in SeqToSet(accepted)
  /\ IndexOf(accepted, r1) < IndexOf(accepted, r2)

NotifyOnItsWay == \E c \in Callers : cpc[c] = "notify"

\* C1: every request the worker has dequeued and finished was completed by
\* exactly one dispatch of its callback, never zero and never more.
C1_ExactlyOneCallback ==
  \A r \in Callers : Completed(r) => Count(cb_order, r) = 1

\* C2: an accepted request never stays in the queue with the worker blocked
\* in its wait, no notification on its way and nobody inside
\* stop_analysis_thread; from such a state only a further post_analysis or
\* stop_analysis_thread call could get the request dequeued.
C2_AcceptedRequestNotStranded ==
  ~ ( /\ wpc = "wait"
      /\ g_simple_ana_queue # << >>
      /\ g_keep_analyzing
      /\ mpc \in {"run", "serving", "served"}
      /\ ~NotifyOnItsWay )

\* C3: stop_analysis_thread never ends up blocked in its wait while the
\* worker is blocked in its own wait and no notification is on its way;
\* post_analysis refuses from then on, so nothing would wake either thread.
C3_StopNeverStuck ==
  ~ ( /\ mpc = "stop_wait"
      /\ wpc = "wait"
      /\ ~g_keep_analyzing
      /\ ~NotifyOnItsWay )

\* C4: whenever stop_analysis_thread has returned normally the queue is
\* empty, no drained request is left, and the worker has exited and been
\* joined.
C4_StopReturnsAfterDrainAndJoin ==
  mpc = "done" =>
    /\ g_simple_ana_queue = << >>
    /\ ana_to_do = << >>
    /\ wpc = "exited"
    /\ ~g_analysis_thread

C4_Witness == mpc = "done" /\ Len(cb_order) = MaxReq

\* C5: two requests accepted in the order r1, r2 and drained into the same
\* batch are analysed in that order and their callbacks are dispatched in
\* that order.
C5_FifoWithinBatch ==
  \A r1, r2 \in Callers :
    (SameBatch(r1, r2) /\ AcceptedBefore(r1, r2)) =>
      /\ (r1 \in SeqToSet(ana_to_do) /\ r2 \in SeqToSet(ana_to_do)) =>
           IndexOf(ana_to_do, r1) < IndexOf(ana_to_do, r2)
      /\ (Completed(r2) \/ r2 \in SeqToSet(cb_order)) => Completed(r1)
      /\ (r1 \in SeqToSet(cb_order) /\ r2 \in SeqToSet(cb_order)) =>
           IndexOf(cb_order, r1) < IndexOf(cb_order, r2)

C5_Witness ==
  \E r1, r2 \in Callers :
    /\ SameBatch(r1, r2) /\ AcceptedBefore(r1, r2)
    /\ Completed(r1) /\ Completed(r2)
    /\ r1 \in SeqToSet(cb_order) /\ r2 \in SeqToSet(cb_order)

\* C6: while g_keep_analyzing is false (before start_analysis_thread, or
\* once stop has been signalled) a post_analysis call fails and leaves the
\* queue as it was, and no request is accepted or enqueued.
C6_PostRefusedWhenNotRunning ==
  [][ ~g_keep_analyzing =>
        /\ accepted' = accepted
        /\ Len(g_simple_ana_queue') <= Len(g_simple_ana_queue)
        /\ \A c \in Callers :
             (cpc[c] = "idle" /\ cpc'[c] # "idle") =>
               /\ cpc'[c] = "rejected"
               /\ g_simple_ana_queue' = g_simple_ana_queue ]_vars

\* A caller refused after an earlier caller had been accepted, that is
\* after stop was signalled.
C6_Witness ==
  \E a, c \in Callers :
    /\ a < c
    /\ a \in SeqToSet(accepted)
    /\ cpc[c] = "rejected"
    /\ ~g_keep_analyzing

C8_DispatchNeverThrows == wpc # "crashed"

\* C9: whenever the worker is back in the loop of do_analysis, every
\* successful INITIALIZE of the streaming search has been followed by a
\* RESET.
C9_ResetBeforeNextRequest == wpc = "dispatch" => engine_search = "idle"

\* C10: no thread other than the worker is ever inside an engine function.
C10_EngineCallsOnWorkerOnly == ~MainInEngine

\* ------------------------------------------- properties of the data path
\* The worker is at the initialization of the engine for the current input.
AtInit == wpc \in {"simple_init_cal", "search_init_raw", "portal_init_cal"}

\* The step in which init_gadras_drf_raw or init_gadras_drf_calibrated runs.
InitStep == AtInit /\ wpc' # wpc

InitFunctions == {"InitializeIsotopeIdRaw", "InitializeIsotopeIdCalibrated"}

\* The engine functions that analyse spectra.
AnalysisFunctions ==
  {"StaticIsotopeID", "PortalIsotopeID", "RebinUsingK40", "INITIALIZE",
   "ANALYZE", "RESET"}

\* The request in progress asks for the configuration the previous request
\* got the engine initialized for.
SameConfigAsPrevious ==
  /\ prev_request.ok
  /\ prev_request.config = RequestedConfig(cur_type, input)

C12_FailedInitResetsAllFields ==
  [][ (InitStep /\ result'.gadras_intialization_error # 0) =>
        g_gad' = GadUninitialized ]_vars

\* C12 as amended: a failed initialization resets detector-response name,
\* channel count and engine mode; the raw initialization also resets
\* detector count and auto-gain-adjust mode, the calibrated one leaves these
\* two as they were.
C12_FailedInitResetsItsFields ==
  [][ (InitStep /\ result'.gadras_intialization_error # 0) =>
        /\ g_gad'.drf = "" /\ g_gad'.nchannel = -1 /\ ~g_gad'.calibrated
        /\ cur_type = "Search" => g_gad' = GadUninitialized
        /\ cur_type # "Search" =>
             /\ g_gad'.num_detectors = g_gad.num_detectors
             /\ g_gad'.cal_adjust = g_gad.cal_adjust ]_vars

\* A calibrated initialization has failed after a search request had the
\* engine initialized for raw use: the record keeps the detector count and
\* the gain adjustment of that request.
C12_Witness ==
  /\ cur_type = "Simple"
  /\ wpc = "deliver"
  /\ result.gadras_intialization_error = -1
  /\ calls = << "InitializeIsotopeIdCalibrated" >>
  /\ g_gad = [ GadUninitialized EXCEPT !.num_detectors = 2,
                                       !.cal_adjust = "K40" ]

\* A failure code of the engine's initialization is in the result: the
\* codes of its table are the negative ones.
InitFailed(res) ==
  /\ res.gadras_intialization_error # UnsetCode
  /\ res.gadras_intialization_error < 0

\* C13: a request whose engine initialization returned a failure code fails:
\* its result carries that code and an error message, the only engine call
\* made for it is the failed initialization, and the worker goes from the
\* initialization straight to the delivery of the result.
C13_InitFailureFailsRequest ==
  InitFailed(result) =>
    /\ threw
    /\ result.error_message
    /\ result.gadras_analysis_error = UnsetCode
    /\ calls = << InitFunction(cur_type) >>
    /\ wpc \in {"deliver", "crashed"}

C13_Witness ==
  /\ InitFailed(result)
  /\ wpc = "deliver"
  /\ cur_type = "Search"
  /\ input.file # << >>

\* AnalysisOutput::toJson: resultjson["code"].
ToJsonCode(res) ==
  IF res.gadras_intialization_error < 0 \/ res.gadras_analysis_error < 0
    THEN 6 ELSE 0

\* C14: the result of a failed request, as it is handed to the callback,
\* carries a negative initialization or analysis error code and serializes
\* with result code 6; result code 0 goes with successful requests only.
C14_FailedResultHasCode6 ==
  wpc = "deliver" =>
    /\ result.error_message =>
         /\ \/ result.gadras_intialization_error < 0
            \/ result.gadras_analysis_error < 0
         /\ ToJsonCode(result) = 6
    /\ ToJsonCode(result) = 0 => ~threw

\* The stages of a search request after the background has been chosen.
SearchWindowStages == {"search_start", "search_windows", "search_finish"}

\* The search request in progress analyses the ten samples of ScenarioC.
ScenarioCRequest ==
  /\ cur_type = "Search"
  /\ input.file = ScenarioC
  /\ wpc \in SearchWindowStages

\* The sample sets of the foreground windows formed so far.
WindowSamples(i) == real_time_and_samples[i].samples

\* C15: for sample 1 a background of 120 s and samples 2..10 foreground of
\* 0.1 s each, the background window is sample 1 alone and the loop forms
\* exactly 3 foreground windows, each of at least 0.425 s except a last one
\* that ends with the samples.
C15_ScenarioCThreeWindows ==
  ScenarioCRequest =>
    /\ background_samples = {1}
    /\ Len(real_time_and_samples) <= 3
    /\ \A i \in DOMAIN real_time_and_samples :
         \/ real_time_and_samples[i].real_time >= WindowRealTime
         \/ Len(input_file) \in WindowSamples(i)
    /\ wpc = "search_finish" => Len(real_time_and_samples) = 3

\* A search request has left its window loop or is inside it.
InWindowLoop ==
  /\ cur_type = "Search"
  /\ wpc \in {"search_windows", "search_finish"}

\* C16: the foreground windows of one request are pairwise disjoint, every
\* later window holds only samples after those of the window before it, no
\* window holds a background sample, and once the loop has ended the
\* windows hold every non-background sample.
C16_WindowsPartitionSamples ==
  InWindowLoop =>
    /\ \A i, j \in DOMAIN real_time_and_samples :
         i < j =>
           /\ WindowSamples(i) \cap WindowSamples(j) = {}
           /\ \A a \in WindowSamples(i), b \in WindowSamples(j) : a < b
    /\ \A i \in DOMAIN real_time_and_samples :
         WindowSamples(i) \cap background_samples = {}
    /\ wpc = "search_finish" =>
         UNION { WindowSamples(i) : i \in DOMAIN real_time_and_samples }
           = DOMAIN input_file \ background_samples

\* The window the loop forms from the locals of the request in progress.
NextWindow ==
  SumSamples(input_file, input.nchannel, background_samples,
             InnerBegin(sample_iter), 0, {})

\* The loop is about to form a window that has samples and no real time,
\* with sample numbers still ahead of the loop.
ZeroWindowAhead ==
  /\ cur_type = "Search"
  /\ wpc = "search_windows"
  /\ sample_iter <= Len(input_file)
  /\ NextWindow.samples # {}
  /\ NextWindow.real_time <= 0

\* The request in progress was aborted by the zero-second window.
ZeroWindowFault ==
  /\ cur_type = "Search"
  /\ threw
  /\ sample_iter \in 1..Len(input_file)
  /\ NextWindow.samples # {}
  /\ NextWindow.real_time <= 0

NoUsableInput == FirstUsable(input.file, input.nchannel) = 0

\* What C18 asks of a request without usable input, at each of its steps.
RefusedBeforeEngine(entry) ==
  /\ calls = << >>
  /\ calls' = << >>
  /\ wpc \in entry =>
       /\ threw'
       /\ wpc' = "deliver"
       /\ result'.error_message
  /\ wpc \notin entry =>
       /\ wpc = "deliver"
       /\ result.error_message
       /\ cb_order' = Append(cb_order, Head(ana_to_do))

\* C18 as claimed: a search or portal request without a valid calibration of
\* at least 32 channels, or without any background sample, fails before any
\* engine initialization or analysis call and its error goes to its
\* callback.
C18_NoUsableInputMakesNoEngineCall ==
  [][ (cur_type \in {"Search", "Portal"} /\ NoUsableInput) =>
        RefusedBeforeEngine({"search_scan", "portal_init_cal"}) ]_vars

\* C18: a request of the search strategy without a valid calibration of at
\* least 32 channels, or without any background sample, fails before any
\* engine initialization or analysis call and its error goes to its
\* callback.
C18_NoUsableSearchInputMakesNoEngineCall ==
  [][ (cur_type = "Search" /\ NoUsableInput) =>
        RefusedBeforeEngine({"search_scan"}) ]_vars

\* A search request with samples, none of them usable, has been refused and
\* no engine function was called for it.
C18_Witness ==
  /\ cur_type = "Search"
  /\ NoUsableInput
  /\ input.file # << >>
  /\ wpc = "deliver"
  /\ result.error_message
  /\ calls = << >>

\* A request is under analysis or about to be answered.
RequestInProgress == wpc \notin {"dispatch", "crashed"}

\* The measurements of the SpecFile the caller enqueued, as the worker has
\* left them: input_file is input.input until make_shared copies it, and
\* nothing changes the original or the copy after that.
CallerSpecFile == input_file

\* C19: from the enqueueing to the callback the caller's spectrum set holds
\* the channel data and the calibrations it was enqueued with; rebinning
\* and recalibration go to a new spectrum set.
C19_InputSpectrumSetUnchanged ==
  RequestInProgress => CallerSpecFile = input.file

\* Two calibrations are distinct EnergyCalibration instances.
DistinctInstances(a, b) == a.id # b.id

\* The step of a simple request that compares the background's calibration
\* with the foreground's.
SimpleDecides ==
  /\ cur_type = "Simple"
  /\ wpc = "simple_rebin"
  /\ wpc' = "simple_recal"
  /\ Backgrounds(input_file) # {}

SimpleForecal == input_file[CHOOSE i \in Foregrounds(input_file) : TRUE].cal

SimpleBackcal == input_file[CHOOSE i \in Backgrounds(input_file) : TRUE].cal

\* The sample sets fill_inputs is called on in the step being taken: the
\* background samples, or the window just formed.
FilledNow ==
  IF cur_type = "Search" /\ wpc = "search_start"
    THEN {background_samples}
  ELSE IF /\ cur_type = "Search" /\ wpc = "search_windows"
          /\ Len(real_time_and_samples') > Len(real_time_and_samples)
    THEN {NextWindow.samples}
  ELSE {}

\* fill_inputs does not skip the measurement of these samples.
FillUsable(samples) ==
  /\ CalValid(FillInputsCal(input_file, samples, energy_cals))
  /\ input.nchannel >= 64

\* C20 as claimed: in both modes the spectrum is rebinned exactly when the
\* two calibrations are distinct instances, whatever their values.
C20_RebinDecidedByIdentity ==
  [][ /\ SimpleDecides =>
           (DistinctInstances(SimpleForecal, SimpleBackcal)
              <=> Backgrounds(input_file) \in rebinned')
      /\ \A samples \in FilledNow :
           FillUsable(samples) =>
             (DistinctInstances(FillInputsCal(input_file, samples,
                                              energy_cals), energy_cals)
                <=> samples \in rebinned') ]_vars

\* C20: a search-mode detector is rebinned onto the grid exactly when its
\* calibration and the grid's are distinct instances, whatever their
\* values; the simple-mode background is rebinned exactly when its
\* calibration and the foreground's are distinct instances and differ in
\* value as well.
C20_RebinDecidedByIdentityThenValue ==
  [][ /\ SimpleDecides =>
           ((/\ DistinctInstances(SimpleForecal, SimpleBackcal)
             /\ SimpleForecal.coefs # SimpleBackcal.coefs)
              <=> Backgrounds(input_file) \in rebinned')
      /\ \A samples \in FilledNow :
           FillUsable(samples) =>
             (DistinctInstances(FillInputsCal(input_file, samples,
                                              energy_cals), energy_cals)
                <=> samples \in rebinned') ]_vars

\* A search window of one sample whose calibration equals the grid's in
\* value and is another instance has been rebinned.
C20_Witness ==
  /\ cur_type = "Search"
  /\ wpc = "search_windows"
  /\ \E s \in DOMAIN input_file :
       /\ {s} \in rebinned
       /\ input_file[s].cal.coefs = energy_cals.coefs
       /\ DistinctInstances(input_file[s].cal, energy_cals)

\* One foreground spectrum of 64 channels measured for 100 s, no background.
ScenarioA ==
  /\ cur_type = "Simple"
  /\ input.nchannel = 64
  /\ input.file = << Meas("Foreground", 100000, Cal1) >>

\* C21: a simple request with one foreground of 64 channels and no
\* background gets the background-is-synthesized warning, makes no K40
\* call and no calibration fit (the spectrum set is neither changed nor
\* copied), and goes on to the engine analysis call.
C21_NoBackgroundSkipsK40 ==
  [][ /\ (ScenarioA /\ wpc = "simple_recal") =>
           /\ result'.analysis_warnings = {"synthesized"}
           /\ calls' = calls
           /\ input_file' = input_file
           /\ spec_file' = "unset"
           /\ ~threw'
           /\ wpc' = "simple_call"
      /\ (ScenarioA /\ wpc = "simple_call") =>
           /\ "RebinUsingK40" \notin SeqToSet(calls)
           /\ calls' = Append(calls, "StaticIsotopeID") ]_vars

\* The request of ScenarioA has been analysed by the engine and is about to
\* be answered.
C21_Witness ==
  /\ ScenarioA
  /\ wpc = "deliver"
  /\ ~threw
  /\ "synthesized" \in result.analysis_warnings
  /\ calls = << "InitializeIsotopeIdCalibrated", "StaticIsotopeID" >>

\* The refit of the gain threw inside its try block.
RefitThrew == "recal_error" \in result.analysis_warnings

\* C22: when the calibration fit or the use of its result fails in the
\* K40 block, the step ends with a warning and no error, the spectrum set
\* and its calibration stay as they were and are not copied, and the
\* engine analysis call is made next; unless that call fails the request is
\* answered as successful.
C22_FitFailureIsAWarning ==
  [][ /\ (wpc = "simple_recal" /\ RefitThrew') =>
           /\ ~threw'
           /\ ~result'.error_message
           /\ result'.gadras_analysis_error = result.gadras_analysis_error
           /\ input_file' = input_file
           /\ spec_file' = spec_file
           /\ wpc' = "simple_call"
      /\ (wpc = "simple_call" /\ RefitThrew) =>
           /\ calls' = Append(calls, "StaticIsotopeID")
           /\ input_file' = input_file
           /\ result'.error_message <=> threw' ]_vars

\* A request whose refit threw has been analysed by the engine and is about
\* to be answered as successful, with the calibration it came with.
C22_Witness ==
  /\ cur_type = "Simple"
  /\ RefitThrew
  /\ wpc = "deliver"
  /\ ~threw
  /\ ~result.error_message
  /\ Len(calls) >= 2
  /\ calls[Len(calls)] = "StaticIsotopeID"
  /\ calls[Len(calls) - 1] = "RebinUsingK40"
  /\ \A i \in DOMAIN input_file : input_file[i].cal # NewCal

\* ======================================================= EnergyCal.cpp
\* The free functions of namespace EnergyCal.  They compute in double and
\* store in float; TLC's integers have 32 bits, so a double is a binary
\* floating-point number with a significand of DoubleBits bits and a float
\* one with a significand of FloatBits bits, both rounded to nearest, ties to
\* even, with infinities and NaN.  A number is the record
\* [k, s, m, e] of value s * m * 2^e with m odd or zero, so that two records
\* are equal exactly when the numbers are.
DoubleBits == 14
FloatBits  == 10

FZero   == [ k |-> "num", s |-> 1, m |-> 0, e |-> 0 ]
FNaN    == [ k |-> "nan", s |-> 1, m |-> 0, e |-> 0 ]
FInf(s) == [ k |-> "inf", s |-> s, m |-> 0, e |-> 0 ]

RECURSIVE BitLen(_)
BitLen(m) == IF m = 0 THEN 0 ELSE 1 + BitLen(m \div 2)

RECURSIVE Canon(_, _, _)
Canon(s, m, e) ==
  IF m = 0 THEN FZero
  ELSE IF m % 2 = 0 THEN Canon(s, m \div 2, e + 1)
  ELSE [ k |-> "num", s |-> s, m |-> m, e |-> e ]

\* s * m * 2^e (and, with sticky, a little more) rounded to a significand of
\* bits bits.
Round(s, m, e, sticky, bits) ==
  LET n == BitLen(m)
  IN IF n <= bits THEN Canon(s, m, e)
     ELSE LET t    == n - bits
              q    == m \div (2^t)
              r    == m % (2^t)
              half == 2^(t - 1)
              up   == r > half \/ (r = half /\ (sticky \/ q % 2 = 1))
          IN Canon(s, IF up THEN q + 1 ELSE q, e + t)

\* double( n ) of an integer and the double n / d.
FInt(n) == Round(IF n < 0 THEN -1 ELSE 1, IF n < 0 THEN -n ELSE n, 0, FALSE,
                 DoubleBits)
FOne == FInt(1)

IsNaN(x)  == x.k = "nan"
IsZero(x) == x.k = "num" /\ x.m = 0
FNeg(x) == IF x.k = "nan" \/ IsZero(x) THEN x ELSE [ x EXCEPT !.s = -x.s ]
FAbs(x) == IF x.k = "nan" THEN x ELSE [ x EXCEPT !.s = 1 ]

FMul(a, b) ==
  CASE IsNaN(a) \/ IsNaN(b) -> FNaN
    [] a.k = "inf" \/ b.k = "inf" ->
         IF IsZero(a) \/ IsZero(b) THEN FNaN ELSE FInf(a.s * b.s)
    [] OTHER -> Round(a.s * b.s, a.m * b.m, a.e + b.e, FALSE, DoubleBits)

FAdd(a, b) ==
  CASE IsNaN(a) \/ IsNaN(b) -> FNaN
    [] a.k = "inf" /\ b.k = "inf" -> IF a.s = b.s THEN a ELSE FNaN
    [] a.k = "inf" -> a
    [] b.k = "inf" -> b
    [] IsZero(a) -> b
    [] IsZero(b) -> a
    [] OTHER ->
         LET lo == IF a.e <= b.e THEN a ELSE b
             hi == IF a.e <= b.e THEN b ELSE a
             d  == hi.e - lo.e
         IN IF BitLen(hi.m) + d > 30 THEN hi
            ELSE LET sum == hi.s * hi.m * (2^d) + lo.s * lo.m
                 IN Round(IF sum < 0 THEN -1 ELSE 1,
                          IF sum < 0 THEN -sum ELSE sum, lo.e, FALSE,
                          DoubleBits)

FSub(a, b) == FAdd(a, FNeg(b))

FDiv(a, b) ==
  CASE IsNaN(a) \/ IsNaN(b) -> FNaN
    [] a.k = "inf" -> IF b.k = "inf" THEN FNaN ELSE FInf(a.s * b.s)
    [] b.k = "inf" -> FZero
    [] IsZero(b) -> IF IsZero(a) THEN FNaN ELSE FInf(a.s * b.s)
    [] IsZero(a) -> FZero
    [] OTHER ->
         LET up == DoubleBits - BitLen(a.m)
             n  == a.m * (2^(up + 16))
         IN Round(a.s * b.s, n \div b.m, a.e - up - 16 - b.e,
                  n % b.m # 0, DoubleBits)

RECURSIVE ISqrt(_, _, _)
ISqrt(n, lo, hi) ==
  IF hi - lo <= 1 THEN lo
  ELSE LET mid == (lo + hi) \div 2
       IN IF mid * mid <= n THEN ISqrt(n, mid, hi) ELSE ISqrt(n, lo, mid)

FSqrt(x) ==
  CASE IsNaN(x) -> FNaN
    [] IsZero(x) -> x
    [] x.s = -1 -> FNaN
    [] x.k = "inf" -> x
    [] OTHER ->
         LET t0 == 29 - BitLen(x.m)
             t  == IF (x.e - t0) % 2 = 0 THEN t0 ELSE t0 + 1
             n  == x.m * (2^t)
             r  == ISqrt(n, 0, 2^15)
         IN Round(1, r, (x.e - t) \div 2, r * r # n, DoubleBits)

\* a < b of two doubles; every comparison with NaN is false.
FLess(a, b) ==
  LET d == FSub(a, b)
  IN d.k # "nan" /\ d.s = -1 /\ ~IsZero(d)

\* static_cast<float>( x ).
ToFloat(x) ==
  IF x.k # "num" THEN x ELSE Round(x.s, x.m, x.e, FALSE, FloatBits)

\* std::pow( x, double(n) ) for the exponents the basis functions use.
RECURSIVE FPow(_, _)
FPow(x, n) == IF n = 0 THEN FOne ELSE FMul(FPow(x, n - 1), x)

\* ------------------------------------------------------- matrix_invert
\* A matrix is the sequence of its rows.
Column(A, c) == [ r \in 1..Len(A) |-> A[r][c] ]

\* The sum ublas::prod accumulates for one element, from the first term on.
RECURSIVE Dot(_, _, _)
Dot(u, v, n) ==
  IF n = 0 THEN FZero ELSE FAdd(Dot(u, v, n - 1), FMul(u[n], v[n]))

\* prod( trans( A ), A ) and prod( trans( A ), b ) for A of ncol columns.
TransProd(A, ncol) ==
  [ j \in 1..ncol |->
      [ c \in 1..ncol |-> Dot(Column(A, j), Column(A, c), Len(A)) ] ]
TransProdVec(A, b, ncol) ==
  [ j \in 1..ncol |-> Dot(Column(A, j), b, Len(A)) ]
\* prod( C, beta ).
MatVec(C, beta) == [ j \in 1..Len(C) |-> Dot(C[j], beta, Len(beta)) ]
Identity(n) ==
  [ r \in 1..n |-> [ c \in 1..n |-> IF r = c THEN FOne ELSE FZero ] ]

\* index_norm_inf of column i from row i down: the first row whose entry is
\* the largest in magnitude.
RECURSIVE PivotRow(_, _, _, _)
PivotRow(M, i, r, best) ==
  IF r > Len(M) THEN best
  ELSE PivotRow(M, i, r + 1,
                IF FLess(FAbs(M[best][i]), FAbs(M[r][i])) THEN r ELSE best)

SwapRows(M, i, j) == [ M EXCEPT ![i] = M[j], ![j] = M[i] ]

\* Column i below the diagonal is scaled by 1 / m(i,i) and the outer product
\* is subtracted from the rest.
Eliminate(M, i) ==
  LET inv == FDiv(FOne, M[i][i])
  IN [ r \in 1..Len(M) |->
         IF r <= i THEN M[r]
         ELSE LET l == FMul(M[r][i], inv)
              IN [ c \in 1..Len(M) |->
                     IF c < i THEN M[r][c]
                     ELSE IF c = i THEN l
                     ELSE FSub(M[r][c], FMul(l, M[i][c])) ] ]

\* lu_factorize( A, pm ) from column i on; rhs is the identity matrix with
\* the rows swapped as pm records them.  A zero pivot makes the result
\* non-zero, and matrix_invert returns false.
RECURSIVE lu_factorize(_, _, _)
lu_factorize(M, rhs, i) ==
  IF i > Len(M) THEN [ singular |-> FALSE, lu |-> M, rhs |-> rhs ]
  ELSE LET p == PivotRow(M, i, i, i)
       IN IF IsZero(M[p][i]) THEN [ singular |-> TRUE ]
          ELSE lu_factorize(Eliminate(SwapRows(M, i, p), i),
                            SwapRows(rhs, i, p), i + 1)

\* inplace_solve with the unit lower triangle, then with the upper triangle,
\* on one column y of the right-hand side.
RECURSIVE SolveLower(_, _, _)
SolveLower(LU, y, n) ==
  IF n > Len(y) THEN y
  ELSE SolveLower(LU,
         IF IsZero(y[n]) THEN y
         ELSE [ m \in 1..Len(y) |->
                  IF m > n THEN FSub(y[m], FMul(LU[m][n], y[n])) ELSE y[m] ],
         n + 1)
RECURSIVE SolveUpper(_, _, _)
SolveUpper(LU, y, n) ==
  IF n = 0 THEN y
  ELSE LET t == FDiv(y[n], LU[n][n])
       IN SolveUpper(LU,
            [ m \in 1..Len(y) |->
                IF m = n THEN t
                ELSE IF m < n /\ ~IsZero(t)
                       THEN FSub(y[m], FMul(LU[m][n], t))
                ELSE y[m] ],
            n - 1)

matrix_invert(matrix) ==
  LET n == Len(matrix)
      f == lu_factorize(matrix, Identity(n), 1)
  IN IF f.singular THEN [ success |-> FALSE ]
     ELSE LET x == [ c \in 1..n |->
                       SolveUpper(f.lu, SolveLower(f.lu, Column(f.rhs, c), 1),
                                  n) ]
          IN [ success |-> TRUE,
               inverse |-> [ r \in 1..n |-> [ c \in 1..n |-> x[c][r] ] ] ]

\* -------------------------------------------------- fit_energy_cal_imp
poly_coef_fcn_frf(order, channel, nchannel) ==
  LET x == FDiv(channel, FInt(nchannel))
  IN IF order = 4 THEN FDiv(FOne, FAdd(FOne, FMul(FInt(60), x)))
     ELSE FPow(x, order)
poly_coef_fcn(order, channel, nchannel) ==
  FPow(channel, order)

frf_coef_fcn(order, channel, nchannel) ==
  LET x == FDiv(channel, FInt(nchannel))
  IN IF order = 4 THEN FDiv(FOne, FAdd(FOne, FMul(FInt(60), x)))
     ELSE FPow(x, order)

\* The std::function the wrappers hand to the implementation.
CoefFcn(coeffcn, order, channel, nchannel) ==
  IF coeffcn = "poly" THEN poly_coef_fcn(order, channel, nchannel)
  ELSE frf_coef_fcn(order, channel, nchannel)

\* vector::resize( n, 0.0 ).
Resize(v, n) == [ i \in 1..n |-> IF i <= Len(v) THEN v[i] ELSE FZero ]

\* A throw leaves the two output vectors as the caller passed them.
RejectedResized(fitfor, coefs, coefs_uncert, what) ==
  [ threw |-> TRUE, what |-> what, coefs |-> Resize(coefs, Len(fitfor)),
    coefs_uncert |-> Resize(coefs_uncert, Len(fitfor)), chi2 |-> FZero ]
Rejected(fitfor, coefs, coefs_uncert, what) ==
  [ threw |-> TRUE, what |-> what, coefs |-> coefs,
    coefs_uncert |-> coefs_uncert, chi2 |-> FZero ]

\* The column of A that coefficient i is fitted in.
ColOf(fitfor, i) == Cardinality({ j \in 1..i : fitfor[j] })

\* energy_uncerts[i], a float.
EnergyUncert(peak) ==
  LET mean == FInt(peak.peakMean)
  IN ToFloat(FDiv(FMul(ToFloat(FInt(peak.photopeakEnergy)),
                       FInt(peak.peakMeanUncert)),
                  IF FLess(mean, FOne) THEN FOne ELSE mean))

\* data_y after the terms of the fixed coefficients up to index i are
\* subtracted from it.
RECURSIVE SubtractFixed(_, _, _, _, _, _, _)
SubtractFixed(data_y, fitfor, coefs, coeffcn, mean_bin, nchannels, i) ==
  IF i = 0 THEN data_y
  ELSE LET y == SubtractFixed(data_y, fitfor, coefs, coeffcn, mean_bin,
                              nchannels, i - 1)
       IN IF fitfor[i] THEN y
          ELSE FSub(y, FMul(coefs[i],
                            CoefFcn(coeffcn, i - 1, mean_bin, nchannels)))

\* y_pred of the chi2 loop, and the energy a polynomial calibration gives
\* a channel.
RECURSIVE Predicted(_, _, _, _, _)
Predicted(coefs, coeffcn, channel, nchannels, i) ==
  IF i = 0 THEN FZero
  ELSE FAdd(Predicted(coefs, coeffcn, channel, nchannels, i - 1),
            FMul(coefs[i], CoefFcn(coeffcn, i - 1, channel, nchannels)))

RECURSIVE Chi2(_, _, _, _, _)
Chi2(peakinfos, coefs, coeffcn, nchannels, n) ==
  IF n = 0 THEN FZero
  ELSE LET mean_bin == ToFloat(FInt(peakinfos[n].peakMeanBinNumber))
           truth    == ToFloat(FInt(peakinfos[n].photopeakEnergy))
           y_pred   == Predicted(coefs, coeffcn, mean_bin, nchannels,
                                 Len(coefs))
       IN FAdd(Chi2(peakinfos, coefs, coeffcn, nchannels, n - 1),
               FPow(FDiv(FSub(y_pred, truth), EnergyUncert(peakinfos[n])),
                    2))

\* What the loop at the end stores for a coefficient that is not fitted for.
ZeroFixed(resized, i) == FZero
KeepFixed(resized, i) == resized[i]

\* The deviation pairs are empty: correction_due_to_dev_pairs and
\* deviation_pair_correction are zero.
fit_energy_cal_imp(peakinfos, fitfor, nchannels, coefs, coefs_uncert, coeffcn) ==
  LET npeaks   == Len(peakinfos)
      nparsfit == Cardinality({ i \in 1..Len(fitfor) : fitfor[i] })
      mean_bin == [ r \in 1..npeaks |->
                      ToFloat(FInt(peakinfos[r].peakMeanBinNumber)) ]
      uncert   == [ r \in 1..npeaks |-> FAbs(EnergyUncert(peakinfos[r])) ]
      A == [ r \in 1..npeaks |->
             [ c \in 1..nparsfit |->
                 LET i == CHOOSE i \in 1..Len(fitfor) :
                            fitfor[i] /\ ColOf(fitfor, i) = c
                 IN FDiv(CoefFcn(coeffcn, i - 1, mean_bin[r], nchannels),
                         uncert[r]) ] ]
      b == [ r \in 1..npeaks |->
             FDiv(SubtractFixed(ToFloat(FInt(peakinfos[r].photopeakEnergy)),
                                fitfor, coefs, coeffcn, mean_bin[r],
                                nchannels, Len(fitfor)),
                  uncert[r]) ]
      inv  == matrix_invert(TransProd(A, nparsfit))
      a    == MatVec(inv.inverse, TransProdVec(A, b, nparsfit))
      resized == Resize(coefs, Len(fitfor))
      fitted  == [ i \in 1..Len(fitfor) |->
                     IF fitfor[i] THEN ToFloat(a[ColOf(fitfor, i)])
                     ELSE KeepFixed(resized, i) ]
      errors  == [ i \in 1..Len(fitfor) |->
                     IF fitfor[i]
                       THEN LET c == ColOf(fitfor, i)
                            IN ToFloat(FSqrt(inv.inverse[c][c]))
                     ELSE FZero ]
  IN CASE npeaks < 1 ->
            Rejected(fitfor, coefs, coefs_uncert,
                     "Must have at least one peak")
       [] nparsfit < 1 ->
            Rejected(fitfor, coefs, coefs_uncert,
                     "Must fit for at least one coefficient")
       [] nparsfit > npeaks ->
            Rejected(fitfor, coefs, coefs_uncert,
                     "Must have at least as many peaks as coefficients fitting for")
       [] nparsfit # Len(fitfor) /\ Len(coefs) # Len(fitfor) ->
            Rejected(fitfor, coefs, coefs_uncert,
                     "You must supply input coefficient when any of the coefficients are fixed")
       [] ~inv.success ->
            [ threw |-> TRUE,
              what |-> "Trouble inverting least linear squares matrix",
              coefs |-> coefs, coefs_uncert |-> coefs_uncert,
              chi2 |-> FZero ]
       [] OTHER ->
            [ threw |-> FALSE, what |-> "", coefs |-> fitted,
              coefs_uncert |-> errors,
              chi2 |-> Chi2(peakinfos, fitted, coeffcn, nchannels, npeaks) ]

\* --------------------------------------- fit_from_channel_energies_imp
\* The mean of | energy - channel_energies[i] | over the first n entries is
\* the sum of this divided by nenergies; basis(order, channel) is the term
\* of coefficient order at a channel.
RECURSIVE SumAbsDiffs(_, _, _, _)
SumAbsDiffs(energy_of, channel_energies, coefs, n) ==
  IF n = 0 THEN FZero
  ELSE FAdd(SumAbsDiffs(energy_of, channel_energies, coefs, n - 1),
            FAbs(FSub(energy_of[n], ToFloat(FInt(channel_energies[n])))))

\* energy of the loop at the end for entry i (counted from one): the sum of
\* coefs[col] * coeffcn( i, col, nchannel ) over the columns.
RECURSIVE FittedEnergy(_, _, _, _, _)
FittedEnergy(coefs, coeffcn, i, nchannel, ncol) ==
  IF ncol = 0 THEN FZero
  ELSE FAdd(FittedEnergy(coefs, coeffcn, i, nchannel, ncol - 1),
            FMul(coefs[ncol], CoefFcn(coeffcn, i - 1, FInt(ncol - 1),
                                      nchannel)))

StrictlyIncreasing(channel_energies) ==
  \A i \in 2..Len(channel_energies) :
    FLess(ToFloat(FInt(channel_energies[i - 1])),
          ToFloat(FInt(channel_energies[i])))

\* A(row,col) of the row loop, rows and columns counted from one here:
\* coeffcn( row, col, nchannel ) / uncert with uncert = 1.0.
DesignEntry(coeffcn, row, col, nchannel) ==
  FDiv(CoefFcn(coeffcn, row - 1, FInt(col - 1), nchannel), FOne)

EdgeRejected(what, coefs) ==
  [ threw |-> TRUE, what |-> what, coefs |-> coefs, avrgdiffs |-> FZero ]

fit_from_channel_energies_imp(ncoeffs, channel_energies, coeffcn, coefs) ==
  LET nenergies == Len(channel_energies)
      nchannel  == nenergies - 1
      A == [ row \in 1..nenergies |->
             [ col \in 1..ncoeffs |->
                 DesignEntry(coeffcn, row, col, nchannel) ] ]
      b == [ row \in 1..nenergies |->
               FDiv(ToFloat(FInt(channel_energies[row])), FOne) ]
      inv == matrix_invert(TransProd(A, ncoeffs))
      a   == MatVec(inv.inverse, TransProdVec(A, b, ncoeffs))
      fitted == [ col \in 1..ncoeffs |-> ToFloat(a[col]) ]
      energy_of == [ i \in 1..nenergies |->
                       FittedEnergy(fitted, coeffcn, i, nchannel, ncoeffs) ]
  IN CASE ncoeffs < 2 ->
            EdgeRejected("You must request at least two coefficients", coefs)
       [] ncoeffs >= 6 ->
            EdgeRejected("You must request less than 6 coefficients", coefs)
       [] nenergies <= 6 ->
            EdgeRejected("Input energies must have at least 6 entries", coefs)
       [] ~StrictlyIncreasing(channel_energies) ->
            EdgeRejected("Input energies must be stricktly increasing", coefs)
       [] ~inv.success ->
            EdgeRejected("Trouble inverting least linear squares matrix",
                         coefs)
       [] OTHER ->
            [ threw |-> FALSE, what |-> "", coefs |-> fitted,
              avrgdiffs |->
                FDiv(SumAbsDiffs(energy_of, channel_energies, fitted,
                                 nenergies),
                     FInt(nenergies)) ]

\* The boundary energies the full-range-fraction model gives for the
\* coefficients: entry i (counted from one) is the energy of channel i - 1
\* of nchannel channels.
FullRangeFractionEnergy(coefs, channel, nchannel) ==
  Predicted(coefs, "frf", FInt(channel), nchannel, Len(coefs))
\* SpecUtils::polynomial_energy without deviation pairs: the sum of
\* coeffs[i] * channel^i over the first n coefficients.
RECURSIVE polynomial_energy(_, _, _)
polynomial_energy(channel, coeffs, n) ==
  IF n = 0 THEN FZero
  ELSE FAdd(polynomial_energy(channel, coeffs, n - 1),
            FMul(coeffs[n], FPow(channel, n - 1)))
RegeneratedError(coefs, channel_energies) ==
  LET n == Len(channel_energies)
  IN FDiv(SumAbsDiffs([ i \in 1..n |->
                          FullRangeFractionEnergy(coefs, i - 1, n - 1) ],
                      channel_energies, coefs, n),
          FInt(n))

\* ---------------------------------------- propogate_energy_cal_change
\* A shared_ptr<const EnergyCalibration> is the record of the object it
\* points to: id names the object (0 is the null pointer), coefs names the
\* values it holds.
EnergyCalibration(id, type, num_channels, ncoefs) ==
  [ id |-> id, type |-> type, num_channels |-> num_channels,
    ncoefs |-> ncoefs, coefs |-> << "given", id >> ]
NullCal == EnergyCalibration(0, "InvalidEquationType", 0, 0)
\* make_shared<EnergyCalibration>() gives an object no input points to.
NewId == 100
\* EnergyCalibration::valid().
Valid(cal) == cal.type # "InvalidEquationType"

NeverSame(a, b) == FALSE
SameObject(a, b) == a.id = b.id

Max(a, b) == IF a >= b THEN a ELSE b
Min(a, b) == IF a <= b THEN a ELSE b

PropagateThrows(what) ==
  [ op |-> "propogate_energy_cal_change", threw |-> TRUE, what |-> what,
    answer |-> NullCal ]
PropagateReturns(answer) ==
  [ op |-> "propogate_energy_cal_change", threw |-> FALSE, what |-> "",
    answer |-> answer ]

\* fit_for_fullrangefraction_coefs: with five terms the loop fills columns
\* 0..3 of the five-column matrix A and writes the fifth term to A(row,5);
\* column 4 is read as the allocation left it, and the coefficients carry
\* that value.
FrfColumnsRead(nterms) == Min(nterms, 5)
FrfColumnsWritten(nterms) == Min(4, Min(nterms, 5))

\* setter_accepts: the values fitted from the three calibrations pass the
\* checks of matrix_invert and of set_polynomial, set_full_range_fraction or
\* set_lower_channel_energy, which throw otherwise.  uninitialized: what an
\* element of a matrix holds that was never written.
propogate_energy_cal_change(orig_cal, new_cal, other_cal, setter_accepts, uninitialized) ==
  LET order == Max(other_cal.ncoefs, Max(orig_cal.ncoefs, new_cal.ncoefs))
      from  == << orig_cal.id, new_cal.id, other_cal.id >>
  IN CASE \/ orig_cal = NullCal \/ new_cal = NullCal \/ other_cal = NullCal
          \/ ~Valid(orig_cal) \/ ~Valid(new_cal) \/ ~Valid(other_cal)
          \/ orig_cal.type = "LowerChannelEdge"
          \/ new_cal.type = "LowerChannelEdge" ->
            PropagateThrows("EnergyCal::propogate_energy_cal_change invalid input")
       [] SameObject(orig_cal, new_cal) -> PropagateReturns(other_cal)
       [] ~setter_accepts -> PropagateThrows("setter")
       [] other_cal.type = "LowerChannelEdge" ->
            PropagateReturns(
              [ id |-> NewId, type |-> "LowerChannelEdge",
                num_channels |-> other_cal.num_channels, ncoefs |-> 0,
                coefs |-> << "moved", from >> ])
       [] other_cal.type = "FullRangeFraction" ->
            PropagateReturns(
              [ id |-> NewId, type |-> "FullRangeFraction",
                num_channels |-> other_cal.num_channels,
                ncoefs |-> FrfColumnsRead(order),
                coefs |-> IF FrfColumnsRead(order) > FrfColumnsWritten(order)
                            THEN << "fitted", from, uninitialized >>
                            ELSE << "fitted", from >> ])
       [] OTHER ->
            PropagateReturns(
              [ id |-> NewId, type |-> "Polynomial",
                num_channels |-> other_cal.num_channels, ncoefs |-> order,
                coefs |-> << "fitted", from >> ])

\* ------------------------------------------------ the calls under study
MaxPeaks == 2
MaxCoefs == 2

RecalPeakInfo(peakMean, peakMeanUncert, peakMeanBinNumber, photopeakEnergy) ==
  [ peakMean |-> peakMean, peakMeanUncert |-> peakMeanUncert,
    peakMeanBinNumber |-> peakMeanBinNumber,
    photopeakEnergy |-> photopeakEnergy ]
\* The peak of Scenario B with the uncertainty do_simple_analysis gives its
\* peak and with twice that, two small peaks, and a peak without uncertainty.
ScenarioBPeaks == { RecalPeakInfo(500, u, 500, 661) : u \in 1..2 }
Peaks == ScenarioBPeaks \cup { RecalPeakInfo(3, 1, 1, 3),
                               RecalPeakInfo(4, 1, 2, 6),
                               RecalPeakInfo(3, 0, 1, 3) }
SeqsUpTo(S, n) == UNION { [ 1..k -> S ] : k \in 0..n }

FitInputs ==
  [ op : { "fit_energy_cal" }, coeffcn : { "poly", "frf" },
    peakinfos : SeqsUpTo(Peaks, MaxPeaks),
    fitfor : SeqsUpTo(BOOLEAN, MaxCoefs),
    nchannels : { 1024 },
    coefs : SeqsUpTo({ FZero, FOne }, MaxCoefs),
    coefs_uncert : { << FInt(7) >> } ]

Ramp(n)  == [ i \in 1..n |-> 10 * (i - 1) ]
Curve(n) == [ i \in 1..n |-> 10 * (i - 1) + (i - 1) * (i - 1) ]
Stall(n) == [ i \in 1..n |-> IF i = n THEN 10 * (i - 2) ELSE 10 * (i - 1) ]
EdgeInputs ==
  [ op : { "fit_from_channel_energies" }, coeffcn : { "poly", "frf" },
    ncoeffs : 1..6,
    channel_energies : { Ramp(5), Ramp(6), Ramp(7), Curve(7), Stall(7) },
    coefs : { << >> } ]

CalObjects ==
  { NullCal,
    EnergyCalibration(1, "Polynomial", 16, 2),
    EnergyCalibration(2, "Polynomial", 16, 3),
    EnergyCalibration(3, "FullRangeFraction", 16, 5),
    EnergyCalibration(4, "FullRangeFraction", 32, 3),
    EnergyCalibration(5, "LowerChannelEdge", 16, 0),
    EnergyCalibration(6, "UnspecifiedUsingDefaultPolynomial", 32, 2),
    EnergyCalibration(7, "InvalidEquationType", 0, 0) }
UninitializedValues == { "zero", "junk" }
PropagateInputs ==
  [ op : { "propogate_energy_cal_change" }, orig_cal : CalObjects,
    new_cal : CalObjects, other_cal : CalObjects,
    setter_accepts : BOOLEAN ]

\* fit_energy_cal_poly and fit_energy_cal_frf hand their arguments and their
\* basis function to the implementation.
FitEnergyCalCall(in) ==
  [ op |-> in.op ] @@
  fit_energy_cal_imp(in.peakinfos, in.fitfor, in.nchannels, in.coefs,
                     in.coefs_uncert, in.coeffcn)
\* fit_poly_from_channel_energies does the same;
\* fit_full_range_fraction_from_channel_energies refuses five coefficients
\* and more first.
FitFromChannelEnergiesCall(in) ==
  [ op |-> in.op ] @@
  ( IF in.coeffcn = "frf" /\ in.ncoeffs >= 5
      THEN EdgeRejected("You must request less than 5 coefficients",
                        in.coefs)
      ELSE fit_from_channel_energies_imp(in.ncoeffs, in.channel_energies,
                                         in.coeffcn, in.coefs) )
PropagateCall(in, uninitialized) ==
  propogate_energy_cal_change(in.orig_cal, in.new_cal, in.other_cal,
                              in.setter_accepts, uninitialized)

\* Everything but the record of the call under study.
server_vars == << g_keep_analyzing, g_analysis_thread, g_simple_ana_queue,
                  g_gad, engine_search, server, mpc, cpc, wt_app_id,
                  accepted, wpc, ana_to_do, batch_of, cur_type, result,
                  threw, calls, do_reset_ana, windows, cb_order, outcome,
                  locals_vars, prev_request, g_gad_app_folder, conf_vars,
                  response >>

CalInit ==
  /\ ServerDown
  /\ cal_in \in FitInputs \cup EdgeInputs \cup PropagateInputs
  /\ cal_out = NoCal
  /\ cal_again = NoCal

\* The first call leaves its outcome in cal_out, the second call, made with
\* the arguments of the first, in cal_again.
Returned(out) ==
  /\ cal_again = NoCal
  /\ IF cal_out = NoCal
       THEN cal_out' = out /\ UNCHANGED cal_again
       ELSE cal_again' = out /\ UNCHANGED cal_out
  /\ UNCHANGED << server_vars, cal_in >>

\* A caller calls fit_energy_cal_poly or fit_energy_cal_frf.
FitEnergyCal ==
  /\ cal_in.op = "fit_energy_cal"
  /\ Returned(FitEnergyCalCall(cal_in))

\* A caller calls fit_poly_from_channel_energies or
\* fit_full_range_fraction_from_channel_energies.
FitFromChannelEnergies ==
  /\ cal_in.op = "fit_from_channel_energies"
  /\ Returned(FitFromChannelEnergiesCall(cal_in))

\* A caller calls propogate_energy_cal_change.
Propagate ==
  /\ cal_in.op = "propogate_energy_cal_change"
  /\ \E u \in UninitializedValues : Returned(PropagateCall(cal_in, u))

CalNext ==
  \/ FitEnergyCal
  \/ FitFromChannelEnergies
  \/ Propagate

CalSpec == CalInit /\ [][CalNext]_vars

\* ------------------------------------------- properties of the fitters
NFree(fitfor) == Cardinality({ i \in 1..Len(fitfor) : fitfor[i] })
FitCalled == cal_in.op = "fit_energy_cal" /\ cal_out # NoCal
FewerPeaksThanFree == Len(cal_in.peakinfos) < NFree(cal_in.fitfor)
FixedWithoutValue ==
  /\ NFree(cal_in.fitfor) # Len(cal_in.fitfor)
  /\ Len(cal_in.coefs) # Len(cal_in.fitfor)

\* C23: the peak-based fit (fit_energy_cal_poly, fit_energy_cal_frf) throws
\* and leaves the coefficient vector and the uncertainty vector as they were
\* passed whenever there are fewer peaks than free parameters, and whenever
\* a parameter is fixed while the coefficient vector does not have the size
\* of the mask.
C23_UnderdeterminedFitFailsUnchanged ==
  (FitCalled /\ (FewerPeaksThanFree \/ FixedWithoutValue))
    => /\ cal_out.threw
       /\ cal_out.coefs = cal_in.coefs
       /\ cal_out.coefs_uncert = cal_in.coefs_uncert

\* A fit of two free coefficients to one peak was refused, and a fit with a
\* fixed coefficient and a coefficient vector of another size was refused.
C23_Witness ==
  /\ FitCalled /\ cal_out.threw
  /\ \/ /\ FewerPeaksThanFree /\ Len(cal_in.peakinfos) = 1
        /\ ~FixedWithoutValue
        /\ Len(cal_in.coefs) # Len(cal_in.fitfor)
     \/ /\ FixedWithoutValue /\ ~FewerPeaksThanFree
        /\ NFree(cal_in.fitfor) = 1

FitSucceeded == FitCalled /\ ~cal_out.threw

\* C24: after a successful fit every coefficient that is not marked free has
\* exactly the value the caller supplied for it, whatever the peaks are and
\* whatever the free coefficients were fitted to.
C24_FixedCoefficientKept ==
  FitSucceeded
    => \A i \in 1..Len(cal_in.fitfor) :
         ~cal_in.fitfor[i] => cal_out.coefs[i] = cal_in.coefs[i]

\* A fit that kept a fixed coefficient of one while it moved the free one.
C24_Witness ==
  /\ FitSucceeded
  /\ \E i, j \in 1..Len(cal_in.fitfor) :
       /\ ~cal_in.fitfor[i] /\ cal_in.coefs[i] = FOne
       /\ cal_out.coefs[i] = FOne
       /\ cal_in.fitfor[j] /\ cal_out.coefs[j] # cal_in.coefs[j]

\* Scenario B: one peak with peakMean 500, peakMeanBinNumber 500 and
\* photopeakEnergy 661, fitted by fit_energy_cal_poly with only the linear
\* coefficient free, coefficients [0,1], 1024 channels, no deviation pairs.
\* The peak has a positive uncertainty, as every peak the analysis fits.
ScenarioB ==
  /\ cal_in.op = "fit_energy_cal" /\ cal_in.coeffcn = "poly"
  /\ cal_in.peakinfos \in { << p >> : p \in ScenarioBPeaks }
  /\ cal_in.fitfor = << FALSE, TRUE >>
  /\ cal_in.nchannels = 1024
  /\ cal_in.coefs = << FZero, FOne >>

\* The spacing of floats relative to their magnitude.
FloatEpsilon == Canon(1, 1, 1 - FloatBits)
WithinTolerance(x, y) ==
  /\ x.k = "num"
  /\ ~FLess(FMul(FAbs(y), FloatEpsilon), FAbs(FSub(x, y)))

\* C25: in Scenario B the fit succeeds, coefficient[0] stays 0 and
\* coefficient[1] is such that the polynomial's energy of channel 500 is 661
\* within the precision of a float.
C25_ScenarioBFitsLinearTerm ==
  (ScenarioB /\ cal_out # NoCal)
    => /\ ~cal_out.threw
       /\ cal_out.coefs[1] = FZero
       /\ WithinTolerance(
            polynomial_energy(FInt(500), cal_out.coefs, Len(cal_out.coefs)),
            FInt(661))

\* Scenario B was fitted: the linear coefficient moved from 1 to more than 1.
C25_Witness ==
  /\ ScenarioB /\ cal_out # NoCal /\ ~cal_out.threw
  /\ Len(cal_out.coefs) = 2
  /\ FLess(FOne, cal_out.coefs[2])

EdgeFitCalled == cal_in.op = "fit_from_channel_energies" /\ cal_out # NoCal
EdgeFitSucceeded == EdgeFitCalled /\ ~cal_out.threw

\* C26: the channel-boundary fit, polynomial or full range fraction, returns
\* for every strictly increasing array of at least 6 energies with 2 to 5
\* requested coefficients, and throws for every shorter array, every array
\* that is not strictly increasing and every other coefficient count.
C26_ChannelFitAcceptance ==
  EdgeFitCalled
    => ( ~cal_out.threw
         <=> /\ Len(cal_in.channel_energies) >= 6
             /\ \A i \in 2..Len(cal_in.channel_energies) :
                  cal_in.channel_energies[i - 1] < cal_in.channel_energies[i]
             /\ cal_in.ncoeffs \in 2..5 )

\* What the rounding of the coefficients to float may add to the error of
\* an array of boundary energies (they increase, so the last is the largest).
RoundingSlack(channel_energies) ==
  FMul(FInt(Len(channel_energies)),
       FMul(FInt(channel_energies[Len(channel_energies)]), FloatEpsilon))

\* C27: when the full-range-fraction fit of an array of boundary energies
\* returns, the boundary energies that the full-range-fraction model gives
\* for the fitted coefficients differ from the array, in the mean of the
\* absolute differences, by no more than the error the fit returned.
C27_FrfFitRoundTrip ==
  (EdgeFitSucceeded /\ cal_in.coeffcn = "frf")
    => ~FLess(FAdd(cal_out.avrgdiffs, RoundingSlack(cal_in.channel_energies)),
              RegeneratedError(cal_out.coefs, cal_in.channel_energies))

\* ---------------------------------------- properties of the propagator
PropagateCalled ==
  cal_in.op = "propogate_energy_cal_change" /\ cal_out # NoCal

\* C28: a fitter or the propagator called a second time with the arguments
\* of the first call ends as the first call did and produces the same
\* coefficients.
C28_SameArgumentsSameCoefficients ==
  cal_again # NoCal
    => /\ cal_again.threw = cal_out.threw
       /\ IF cal_in.op = "propogate_energy_cal_change"
            THEN cal_again.answer.coefs = cal_out.answer.coefs
            ELSE cal_again.coefs = cal_out.coefs

\* original and new are one calibration object, and other is a valid one.
IdentityCall ==
  /\ PropagateCalled
  /\ cal_in.orig_cal # NullCal
  /\ cal_in.orig_cal.id = cal_in.new_cal.id
  /\ cal_in.other_cal # NullCal /\ Valid(cal_in.other_cal)
ReturnedOther ==
  ~cal_out.threw /\ cal_out.answer = cal_in.other_cal
\* The calibrations the propagator takes as original and new.
Changeable(cal) ==
  cal # NullCal /\ Valid(cal) /\ cal.type # "LowerChannelEdge"

\* C29 as stated: whenever original and new are the same calibration object
\* and other is valid, the propagator returns the other reference it was
\* given, and no new instance.
C29_IdentityReturnsOther ==
  IdentityCall => ReturnedOther

\* C29 amended: whenever original and new are the same valid calibration
\* object of polynomial, default-polynomial or full-range-fraction type and
\* other is valid, the propagator returns the other reference it was given,
\* and no new instance; when the object is invalid or of lower-channel-edge
\* type, the propagator throws.
C29_IdentityOfChangeableReturnsOther ==
  IdentityCall
    => IF Changeable(cal_in.orig_cal) THEN ReturnedOther ELSE cal_out.threw

\* The identity call returned the very other it was given, here one of
\* lower-channel-edge type.
C29_Witness ==
  /\ IdentityCall /\ Changeable(cal_in.orig_cal) /\ ReturnedOther
  /\ cal_in.other_cal.type = "LowerChannelEdge"
  /\ cal_out.answer.id = cal_in.other_cal.id

\* C30: when the three calibrations are valid and original and new are
\* different objects, a calibration the propagator returns is valid and has
\* the type and the number of channels of other.
C30_AnswerLikeOther ==
  ( /\ PropagateCalled /\ ~cal_out.threw
    /\ \A cal \in { cal_in.orig_cal, cal_in.new_cal, cal_in.other_cal } :
         cal # NullCal /\ Valid(cal)
    /\ cal_in.orig_cal.id # cal_in.new_cal.id )
    => /\ Valid(cal_out.answer)
       /\ cal_out.answer.type = cal_in.other_cal.type
       /\ cal_out.answer.num_channels = cal_in.other_cal.num_channels

\* ------------------------------------------- the application directory
\* The functions of Analysis.h that touch the engine's configuration, called
\* one after the other by a host program: set_gadras_app_dir, the two
\* initializations a request makes, and gadras_version_string.  Under
\* AppDirSpec the variable calls keeps every GADRAS routine called since the
\* process started, and threw tells whether the last set_gadras_app_dir
\* threw.
MaxEngineCalls == 3

\* What SpecUtils::is_directory( dir ) accepts, and what it does not.
Directories == {"run_dir", "other_dir"}
NotDirectories == {"no_such_dir"}

\* The two throws of set_gadras_app_dir.
SetGadrasAppDirThrows(gad, dir) ==
  \/ gad.drf # "" \/ gad.nchannel # -1
  \/ dir \notin Directories

\* set_gadras_app_dir( dir )
set_gadras_app_dir(dir) ==
  /\ IF SetGadrasAppDirThrows(g_gad, dir)
       THEN threw' = TRUE /\ UNCHANGED g_gad_app_folder
       ELSE threw' = FALSE /\ g_gad_app_folder' = dir
  /\ UNCHANGED << g_keep_analyzing, g_analysis_thread, g_simple_ana_queue,
                  g_gad, engine_search, server, mpc, cpc, wt_app_id,
                  accepted, wpc, ana_to_do, batch_of, cur_type, result,
                  calls, do_reset_ana, windows, cb_order, outcome,
                  locals_vars, prev_request, cal_vars, conf_vars, response >>

\* An initialization leaves the record r.gad behind; the engine's routine
\* was called unless the record already held the configuration.
EngineInitialized(r, routine) ==
  /\ Len(calls) < MaxEngineCalls
  /\ g_gad' = r.gad
  /\ calls' = IF r.called THEN Append(calls, routine) ELSE calls
  /\ UNCHANGED << g_keep_analyzing, g_analysis_thread, g_simple_ana_queue,
                  engine_search, server, mpc, cpc, wt_app_id, accepted,
                  wpc, ana_to_do, batch_of, cur_type, result, threw,
                  do_reset_ana, windows, cb_order, outcome, locals_vars,
                  prev_request, still_vars >>

\* init_gadras_drf_calibrated for a simple or portal request.
AppInitCalibrated ==
  \E drf \in DataDRFs, nchannel \in ChannelCounts, code \in InitReturns :
    EngineInitialized(InitGadrasDrfCalibrated(g_gad, drf, nchannel, code),
                      "InitializeIsotopeIdCalibrated")

\* init_gadras_drf_raw for a search request.
AppInitRaw ==
  \E drf \in DataDRFs, nchannel \in ChannelCounts, code \in InitReturns :
    EngineInitialized(InitGadrasDrfRaw(g_gad, drf, nchannel, 1, "K40", code),
                      "InitializeIsotopeIdRaw")

\* gadras_version_string() calls ::gadras_version_number() and leaves the
\* record alone.
GadrasVersionString ==
  EngineInitialized([ gad |-> g_gad, called |-> TRUE ],
                    "gadras_version_number")

SetGadrasAppDir ==
  \E dir \in Directories \cup NotDirectories : set_gadras_app_dir(dir)

AppDirNext ==
  \/ SetGadrasAppDir
  \/ AppInitCalibrated
  \/ AppInitRaw
  \/ GadrasVersionString

AppDirSpec == Init /\ [][AppDirNext]_vars

\* A GADRAS routine has been called since the process started.
GadrasCalled == calls # << >>

\* C31: a call of set_gadras_app_dir made after any GADRAS routine has been
\* called throws, whether that routine succeeded or failed, and the
\* application directory changes only in a call made before every such
\* routine and with a valid directory.
C31_AppDirOnlyBeforeGadras ==
  [][ \A dir \in Directories \cup NotDirectories :
        set_gadras_app_dir(dir) =>
          /\ GadrasCalled => (threw' /\ UNCHANGED g_gad_app_folder)
          /\ g_gad_app_folder' # g_gad_app_folder =>
               (~GadrasCalled /\ dir \in Directories) ]_vars

\* --------------------------------------------------- the isotope arrays
\* What the strategies do with the isotopes the engine reports, from the
\* engine's answer to the result the callback gets.  Numeric confidences are
\* in tenths; the values drawn are off the two thresholds, so that float
\* and double agree on every comparison.
MaxIsotopes == 2

Isotopes == {"Cs137", "Ba133"}

\* std::map iterates in the order of its keys.
SortedIsotopes == << "Ba133", "Cs137" >>

Confidences == {10, 21, 30}

ConfidenceStrs == {"H", "F", "L"}

IsoChannelCounts == {1024, 8192}

\* const float fairThreshold = highRes ? 2.3f : 1.9;
FairThreshold(nchannels) == IF nchannels > 5000 THEN 23 ELSE 19

\* The isotope arrays of a default-constructed AnalysisOutput.
NoIsotopes ==
  [ isotope_names |-> << >>, isotope_types |-> << >>,
    isotope_count_rates |-> << >>, isotope_confidences |-> << >>,
    isotope_confidence_strs |-> << >> ]

IsoOutput == NewOutput @@ NoIsotopes

SeqsOver(S, n) == UNION { [ 1..k -> S ] : k \in 0..n }

\* What the engine hands back for one analysis call: the IsotopeIDResult of
\* get_current_isotope_id_results (the two comma-separated lists already
\* split) and the map get_iso_to_conf makes of the isotope string.  The two
\* lists are the engine's own and need not have nIsotopes entries.
IdResults ==
  { [ nIsotopes |-> Len(c), names |-> n, types |-> t,
      isotopeConfidences |-> c, iso_to_conf |-> m,
      isotopeCountRates |-> [ i \in 1..Len(c) |-> 5 ] ] :
      n \in SeqsOver(Isotopes, MaxIsotopes),
      t \in SeqsOver({"Industrial"}, MaxIsotopes),
      c \in SeqsOver(Confidences, MaxIsotopes),
      m \in UNION { [ D -> ConfidenceStrs ] : D \in SUBSET Isotopes } }

ConfStrAt(id, names, i) ==
  IF i <= Len(names) /\ names[i] \in DOMAIN id.iso_to_conf
    THEN id.iso_to_conf[names[i]] ELSE ""

\* do_simple_analysis, if( idResult.nIsotopes > 0 ): names and types are
\* the split lists, the other three arrays are resized to nIsotopes.
simple_isotopes(res, id) ==
  IF id.nIsotopes > 0
    THEN [ res EXCEPT
             !.isotope_names = id.names,
             !.isotope_types = id.types,
             !.isotope_count_rates = id.isotopeCountRates,
             !.isotope_confidences = id.isotopeConfidences,
             !.isotope_confidence_strs =
                [ i \in 1..id.nIsotopes |-> ConfStrAt(id, id.names, i) ] ]
    ELSE res

\* The throw after the asserts of do_simple_analysis.
IsotopeMismatch(res) ==
  \/ Len(res.isotope_names) # Len(res.isotope_types)
  \/ Len(res.isotope_names) # Len(res.isotope_count_rates)

Find(s, x) ==
  IF \E i \in 1..Len(s) : s[i] = x
    THEN CHOOSE i \in 1..Len(s) : s[i] = x /\ \A j \in 1..(i - 1) : s[j] # x
    ELSE 0

\* do_search_analysis, one pass of the loop over the window's isotopes: a
\* name not yet in the result gets an entry in each of the five arrays,
\* then rate and confidence are raised to the window's values.
search_isotope(res, id, i) ==
  LET name == id.names[i]
      type == IF i <= Len(id.types) THEN id.types[i] ELSE ""
      new  == Find(res.isotope_names, name) = 0
      r1   == IF new
                THEN [ res EXCEPT
                         !.isotope_names = Append(@, name),
                         !.isotope_types = Append(@, type),
                         !.isotope_count_rates = Append(@, -10),
                         !.isotope_confidences = Append(@, -10),
                         !.isotope_confidence_strs = Append(@, "") ]
                ELSE res
      pos  == Find(r1.isotope_names, name)
      r2   == [ r1 EXCEPT !.isotope_count_rates[pos] =
                              Max(@, id.isotopeCountRates[i]) ]
  IN IF id.isotopeConfidences[i] > r2.isotope_confidences[pos]
       THEN [ r2 EXCEPT
                !.isotope_confidences[pos] = id.isotopeConfidences[i],
                !.isotope_confidence_strs[pos] =
                   IF name \in DOMAIN id.iso_to_conf
                     THEN id.iso_to_conf[name] ELSE @ ]
       ELSE r2

RECURSIVE search_isotopes(_, _, _)
search_isotopes(res, id, i) ==
  IF i > Min(id.nIsotopes, Len(id.names)) THEN res
  ELSE search_isotopes(search_isotope(res, id, i), id, i + 1)

\* The isotopes a window's isotope string gives with confidence conf.
WithConf(id, conf) ==
  { n \in DOMAIN id.iso_to_conf : id.iso_to_conf[n] = conf }

EraseAt(s, i) == SubSeq(s, 1, i - 1) \o SubSeq(s, i + 1, Len(s))

EraseIsotope(res, i) ==
  [ res EXCEPT !.isotope_names = EraseAt(@, i),
               !.isotope_types = EraseAt(@, i),
               !.isotope_count_rates = EraseAt(@, i),
               !.isotope_confidences = EraseAt(@, i),
               !.isotope_confidence_strs = EraseAt(@, i) ]

\* The test of the filtering loop on entry i.
NotMediumOrHigh(res, i, high, medium, nchannels) ==
  /\ res.isotope_names[i] \notin high
  /\ res.isotope_names[i] \notin medium
  /\ res.isotope_confidences[i] < FairThreshold(nchannels)

\* The filtering loop of do_search_analysis: for( int i = 0; i < size;
\* ++i ) with erase( begin + i ) in its body; i counts from 1 here.
RECURSIVE filter_isotopes(_, _, _, _, _)
filter_isotopes(res, i, high, medium, nchannels) ==
  IF i > Len(res.isotope_names) THEN res
  ELSE IF NotMediumOrHigh(res, i, high, medium, nchannels)
         THEN filter_isotopes(EraseIsotope(res, i), i + 1, high, medium,
                              nchannels)
         ELSE filter_isotopes(res, i + 1, high, medium, nchannels)

\* do_portal_analysis: one entry in each array per isotope of the string.
portal_isotopes(res, id) ==
  LET names == SelectSeq(SortedIsotopes,
                         LAMBDA n : n \in DOMAIN id.iso_to_conf)
      type  == IF Len(names) = 1 THEN "Industrial" ELSE "[Industrial]"
  IN [ res EXCEPT
         !.isotope_names = names,
         !.isotope_confidence_strs =
            [ i \in 1..Len(names) |-> id.iso_to_conf[names[i]] ],
         !.isotope_types = [ i \in 1..Len(names) |-> type ],
         !.isotope_count_rates = [ i \in 1..Len(names) |-> -10 ],
         !.isotope_confidences = [ i \in 1..Len(names) |-> -10 ] ]

\* What the steps on the arrays leave alone.
IsoOnly ==
  UNCHANGED << g_keep_analyzing, g_analysis_thread, g_simple_ana_queue,
               g_gad, engine_search, server, mpc, cpc, wt_app_id, accepted,
               ana_to_do, batch_of, calls, do_reset_ana, cb_order, outcome,
               input_file, spec_file, energy_cals, background_samples,
               sample_iter, real_time_and_samples, rebinned, prev_request,
               cal_vars, g_gad_app_folder, response >>

IsoInit ==
  /\ ServerDown /\ NoCalls

\* The worker takes a request of one of the three types; the engine has
\* been initialized for it and the spectra have been handed over.
IsoDispatch ==
  /\ wpc \in {"none", "dispatch"}
  /\ \E type \in {"Simple", "Search", "Portal"}, n \in IsoChannelCounts :
       /\ cur_type' = type
       /\ input' = [ NoInput EXCEPT !.nchannel = n ]
       /\ wpc' = CASE type = "Simple" -> "simple_static"
                   [] type = "Search" -> "search_window"
                   [] type = "Portal" -> "portal_analyze"
  /\ result' = IsoOutput
  /\ threw' = FALSE
  /\ windows' = 0
  /\ high_conf_isotopes' = {} /\ medium_conf_isotopes' = {}
  /\ IsoOnly

\* The catch block: the result keeps what was written before the throw.
IsoThrow(res) ==
  /\ threw' = TRUE
  /\ result' = Caught(res)
  /\ wpc' = "deliver"

\* do_simple_analysis from static_isotope_id to the end of the try block.
IsoSimple ==
  /\ wpc = "simple_static"
  /\ \E call_stat \in EngineStatus, id \in IdResults :
       LET r0 == [ result EXCEPT !.gadras_analysis_error = call_stat ]
           r1 == simple_isotopes(r0, id)
       IN IF call_stat < 0 THEN IsoThrow(r0)
          ELSE IF IsotopeMismatch(r1) THEN IsoThrow(r1)
          ELSE result' = r1 /\ wpc' = "deliver" /\ UNCHANGED threw
  /\ UNCHANGED << cur_type, input, windows, conf_vars >>
  /\ IsoOnly

\* do_search_analysis, one window: the ANALYZE call, the confidence sets
\* and the isotopes of the window.
IsoSearchWindow ==
  /\ wpc = "search_window"
  /\ windows < MaxWindows
  /\ \E call_stat \in EngineStatus, id \in IdResults :
       IF call_stat < 0
         THEN IsoThrow(result) /\ UNCHANGED << windows, conf_vars >>
         ELSE /\ high_conf_isotopes' =
                   high_conf_isotopes \cup WithConf(id, "H")
              /\ medium_conf_isotopes' =
                   medium_conf_isotopes \cup WithConf(id, "F")
              /\ result' = IF id.nIsotopes > 0
                             THEN search_isotopes(result, id, 1)
                             ELSE result
              /\ windows' = windows + 1
              /\ UNCHANGED << wpc, threw >>
  /\ UNCHANGED << cur_type, input >>
  /\ IsoOnly

\* do_search_analysis after the loop over the windows: the filtering and
\* result.gadras_analysis_error = 0.
IsoSearchFilter ==
  /\ wpc = "search_window"
  /\ result' = [ filter_isotopes(result, 1, high_conf_isotopes,
                                 medium_conf_isotopes, input.nchannel)
                   EXCEPT !.gadras_analysis_error = 0 ]
  /\ wpc' = "deliver"
  /\ UNCHANGED << cur_type, input, threw, windows, conf_vars >>
  /\ IsoOnly

\* do_portal_analysis from the engine call to the end of the try block.
IsoPortal ==
  /\ wpc = "portal_analyze"
  /\ \E call_stat \in EngineStatus, id \in IdResults :
       LET r0 == [ result EXCEPT !.gadras_analysis_error = call_stat ]
       IN IF call_stat < 0
            THEN result' = Caught(r0)
            ELSE result' = portal_isotopes(r0, id)
  /\ wpc' = "deliver"
  /\ UNCHANGED << cur_type, input, threw, windows, conf_vars >>
  /\ IsoOnly

\* input.callback( result ): the result goes to the callback as it is.
IsoDeliver ==
  /\ wpc = "deliver"
  /\ wpc' = "dispatch"
  /\ UNCHANGED << cur_type, input, result, threw, windows, conf_vars >>
  /\ IsoOnly

IsoNext ==
  \/ IsoDispatch
  \/ IsoSimple
  \/ IsoSearchWindow
  \/ IsoSearchFilter
  \/ IsoPortal
  \/ IsoDeliver

IsotopeSpec == IsoInit /\ [][IsoNext]_vars

\* The five per-isotope arrays of a result have one length.
SameLength(res) ==
  /\ Len(res.isotope_types) = Len(res.isotope_names)
  /\ Len(res.isotope_count_rates) = Len(res.isotope_names)
  /\ Len(res.isotope_confidences) = Len(res.isotope_names)
  /\ Len(res.isotope_confidence_strs) = Len(res.isotope_names)

\* C32: in every result that is handed to a callback the arrays of isotope
\* names, types, count rates, numeric confidences and confidence labels have
\* the same length.
C32_IsotopeArraysSameLength == wpc = "deliver" => SameLength(result)

\* C38: after the filtering of a search request no entry is left in the
\* result arrays whose isotope is neither of high nor of medium confidence
\* while its numeric confidence is below the fair threshold.
C38_NoLowConfidenceIsotopeLeft ==
  (wpc = "deliver" /\ cur_type = "Search" /\ ~threw)
    => \A i \in 1..Len(result.isotope_names) :
         ~NotMediumOrHigh(result, i, high_conf_isotopes,
                          medium_conf_isotopes, input.nchannel)

\* ------------------------------------- the record and the engine's state
\* The record holds the configuration tuple cfg: the fields the
\* initialization for cfg compares.
RecordHolds(gad, cfg) ==
  /\ gad.drf = cfg.drf
  /\ gad.nchannel = cfg.nchannel
  /\ gad.calibrated = (cfg.mode = "calibrated")
  /\ cfg.mode = "raw" =>
       (gad.num_detectors = cfg.ndet /\ gad.cal_adjust = "K40")

\* The step in which the worker calls an engine function that analyses.
AnalysisCall ==
  /\ Len(calls') = Len(calls) + 1
  /\ calls'[Len(calls')] \in AnalysisFunctions

\* C33: whenever the worker makes an engine analysis call, the most recent
\* engine initialization was for the configuration of the request, it
\* succeeded, and the cached record holds its tuple; and whenever the record
\* holds a tuple at all, the engine was last initialized with that tuple,
\* successfully.
C33_RecordIsEngineState ==
  /\ [][ AnalysisCall =>
           /\ prev_request.ok
           /\ prev_request.config = RequestedConfig(cur_type, input)
           /\ RecordHolds(g_gad, prev_request.config) ]_vars
  /\ [](g_gad.drf # "" =>
          (prev_request.ok /\ RecordHolds(g_gad, prev_request.config)))

\* ------------------------------------------ the calls of a search request
\* The calls of g_StreamingSearch a search request with w foreground
\* windows makes.
SearchCalls(w) ==
  << "INITIALIZE", "ANALYZE" >> \o [ i \in 1..w |-> "ANALYZE" ]
    \o << "RESET" >>

\* C34: when the callback of a search request is about to be dispatched,
\* the streaming-search calls made since the request was taken are
\* INITIALIZE, ANALYZE for the background, one ANALYZE per foreground
\* window and RESET, in this order and with nothing in between; a request
\* refused before the engine was reached has made no call, and one whose
\* INITIALIZE failed has made that call only.
C34_SearchCallsInOrder ==
  (wpc = "deliver" /\ cur_type = "Search")
    => \/ calls = << >>
       \/ calls = << "INITIALIZE" >> /\ threw
       \/ \E w \in { windows, windows + 1 } : calls = SearchCalls(w)

\* ------------------------------------------------ the synchronous caller
\* The caller posted with an empty wt_app_id and blocks on its own ana_cv.
Synchronous(c) == c \in SeqToSet(accepted) /\ wt_app_id[c] = ""

\* The caller is past ana_cv.wait( lock ).
PastWait(c) == cpc[c] \in {"early", "done"}

\* The step in which the callback of caller c runs on the worker thread.
CallbackRuns(c) ==
  /\ c \notin SeqToSet(cb_order)
  /\ c \in SeqToSet(cb_order')

\* C35: the callback of a synchronous caller runs, and notifies, only while
\* the caller is blocked in the wait on its private condition variable, and
\* a synchronous caller is past that wait only when its callback has stored
\* the result.
C35_SynchronousCallerWaitsForResult ==
  /\ [][ \A c \in Callers :
           (Synchronous(c) /\ CallbackRuns(c)) => cpc[c] = "wait" ]_vars
  /\ [](\A c \in Callers :
          (Synchronous(c) /\ PastWait(c)) => c \in SeqToSet(cb_order))

\* --------------------------------------------- what a stop leaves behind
\* The request went through its strategy function to the end.
Analysed(r) == Completed(r) /\ outcome[r] # "none"

\* C36: once stop_analysis_thread has returned, every request post_analysis
\* accepted has been analysed and its callback has been dispatched; and a
\* step that shortens the queue empties it into the worker's batch, which
\* was empty before.
C36_StopLeavesNoRequestBehind ==
  /\ [](mpc = "done" =>
          \A r \in SeqToSet(accepted) :
            Analysed(r) /\ r \in SeqToSet(cb_order))
  /\ [][ Len(g_simple_ana_queue') < Len(g_simple_ana_queue) =>
           /\ g_simple_ana_queue' = << >>
           /\ ana_to_do = << >>
           /\ ana_to_do' = g_simple_ana_queue ]_vars

\* ----------------------------------------------------- the REST resource
\* AnalysisResource::handleRequest, one HTTP request per caller.  The
\* request carries the drf option ("auto" when none is given, "malformed"
\* for options that do not parse), the number of uploaded files, whether
\* create_input can read them, and what get_drf_name makes of them; asserts
\* tells whether the build has its asserts compiled in.
MaxFiles == 3

\* if( ana_queue_len > 50 )
MaxQueueLength == 50

HttpRequests ==
  [ drf : {"auto", "drfA", "unknown", "malformed"}, nfiles : 0..MaxFiles,
    readable : BOOLEAN, drf_name : {"", "drfA"}, asserts : BOOLEAN ]

\* response.setStatus( status ); response.out() << "{\"code\": code ...".
Answer(resp, status, code) ==
  [ status |-> status, out |-> Append(resp.out, code) ]

\* The handler up to and including post_analysis: the response written so
\* far and where the handler is.  "return" is a return statement, "abort" a
\* failed assert, "post" the call of post_analysis.
handleRequest(req, queue_len) ==
  LET r0 == NoResponse
      r1 == IF req.nfiles \notin {1, 2} THEN Answer(r0, 400, 3) ELSE r0
      r2 == IF req.drf = "auto" /\ req.drf_name = ""
              THEN Answer(r1, 400, 5) ELSE r1
  IN CASE queue_len > MaxQueueLength ->
            [ response |-> Answer(r0, 503, 4), at |-> "return" ]
       [] OTHER ->
     CASE req.drf = "malformed" ->
            [ response |-> Answer(r0, 400, 1), at |-> "return" ]
       [] OTHER ->
     CASE req.drf \notin {"auto"} \cup DRFs ->
            [ response |-> Answer(r0, 400, 2), at |-> "return" ]
       [] OTHER ->
     CASE req.nfiles \notin {1, 2} /\ req.asserts ->
            [ response |-> r1, at |-> "abort" ]
       [] OTHER ->
     CASE ~req.readable \/ req.nfiles = 0 ->
            [ response |-> Answer(r1, 400, 3), at |-> "return" ]
       [] OTHER ->
            [ response |-> r2, at |-> "post" ]

\* No failed assert has ended the process.
Alive == \A c \in Callers : cpc[c] # "aborted"

RestOnly ==
  UNCHANGED << g_analysis_thread, g_gad, engine_search, server, mpc,
               wt_app_id, wpc, ana_to_do, batch_of, cur_type, result, threw,
               calls, do_reset_ana, windows, locals_vars, prev_request,
               cal_vars, g_gad_app_folder, conf_vars >>

\* The server is up and the analysis thread runs.
RestInit ==
  /\ g_keep_analyzing = TRUE
  /\ g_analysis_thread = TRUE
  /\ g_simple_ana_queue = << >>
  /\ g_gad = GadUninitialized
  /\ g_gad_app_folder = DefaultAppDir
  /\ high_conf_isotopes = {} /\ medium_conf_isotopes = {}
  /\ response = [ c \in Callers |-> NoResponse ]
  /\ engine_search = "idle"
  /\ server = TRUE
  /\ mpc = "serving"
  /\ cpc = [ c \in Callers |-> "idle" ]
  /\ wt_app_id = [ c \in Callers |-> "" ]
  /\ accepted = << >>
  /\ wpc = "wait"
  /\ ana_to_do = << >>
  /\ batch_of = [ c \in Callers |-> 0 ]
  /\ cur_type = "Simple"
  /\ result = NewOutput
  /\ threw = FALSE
  /\ calls = << >>
  /\ do_reset_ana = FALSE
  /\ windows = 0
  /\ cb_order = << >>
  /\ outcome = [ c \in Callers |-> "none" ]
  /\ NoData
  /\ NoCalls

\* handleRequest from its top to ana_cv.wait( lock ), or to the return or
\* the failed assert that ends it before.
RestHandle(c) ==
  /\ Alive /\ cpc[c] = "idle"
  /\ \E req \in HttpRequests :
       LET h == handleRequest(req, Len(g_simple_ana_queue)) IN
         /\ response' = [ response EXCEPT ![c] = h.response ]
         /\ IF h.at = "post"
              THEN /\ g_simple_ana_queue' = Enqueue(g_simple_ana_queue, c)
                   /\ accepted' = Append(accepted, c)
                   /\ cpc' = [ cpc EXCEPT ![c] = "wait" ]
              ELSE /\ cpc' = [ cpc EXCEPT ![c] =
                                 IF h.at = "abort" THEN "aborted"
                                 ELSE "done" ]
                   /\ UNCHANGED << g_simple_ana_queue, accepted >>
  /\ UNCHANGED << g_keep_analyzing, cb_order, outcome >>
  /\ RestOnly

\* The analysis thread takes the request at the head of the queue through
\* its strategy, and the callback stores the result and notifies.
RestAnalysed(c) ==
  /\ Alive /\ cpc[c] = "wait"
  /\ g_simple_ana_queue # << >> /\ Head(g_simple_ana_queue) = c
  /\ g_simple_ana_queue' = Tail(g_simple_ana_queue)
  /\ cb_order' = Append(cb_order, c)
  /\ \E o \in {"ok", "failed"} : outcome' = [ outcome EXCEPT ![c] = o ]
  /\ cpc' = [ cpc EXCEPT ![c] = "notified" ]
  /\ UNCHANGED << g_keep_analyzing, accepted, response >>
  /\ RestOnly

\* handleRequest after the wait: the result is serialized into the
\* response, with status 400 for a failed analysis.
RestRespond(c) ==
  /\ Alive /\ cpc[c] = "notified"
  /\ response' = [ response EXCEPT ![c] =
                     IF outcome[c] = "failed"
                       THEN Answer(@, 400, 6)
                       ELSE [ @ EXCEPT !.out = Append(@, 0) ] ]
  /\ cpc' = [ cpc EXCEPT ![c] = "done" ]
  /\ UNCHANGED << g_keep_analyzing, g_simple_ana_queue, accepted, cb_order,
                  outcome >>
  /\ RestOnly

RestNext ==
  \E c \in Callers :
    \/ RestHandle(c)
    \/ RestAnalysed(c)
    \/ RestRespond(c)

RestSpec == RestInit /\ [][RestNext]_vars

\* The codes of the input-error responses: the number of uploaded files or
\* their content (3), and the detector response that is not found (5).
InputErrorCodes == {3, 5}

InputErrorAnswered(c) ==
  \E i \in 1..Len(response[c].out) : response[c].out[i] \in InputErrorCodes

\* C37: an HTTP request that was answered with an input-error response has
\* not been handed to post_analysis: its analysis is not in the queue and
\* was never accepted.
C37_InputErrorNeverEnqueues ==
  \A c \in Callers : InputErrorAnswered(c) => c \notin SeqToSet(accepted)

\* ------------------------------ the design matrix of the propagator's fit
\* fit_for_fullrangefraction_coefs allocates A with npoints rows and
\* polyterms = min(nterms, 5) columns, numbered from 0.
FrfMatrixColumns(nterms) == 0..(Min(nterms, 5) - 1)
\* The columns its loop over the rows assigns: col < min(4, polyterms) in the
\* inner loop, and column 5 when polyterms exceeds 4.
FrfColumnsAssigned(nterms) ==
  (0..(Min(4, Min(nterms, 5)) - 1))
    \cup (IF Min(nterms, 5) > 4 THEN { 5 } ELSE {})

\* The propagator reached its fit of a full-range-fraction calibration.
FrfHelperCalled ==
  /\ PropagateCalled
  /\ Changeable(cal_in.orig_cal) /\ Changeable(cal_in.new_cal)
  /\ cal_in.other_cal # NullCal /\ Valid(cal_in.other_cal)
  /\ ~SameObject(cal_in.orig_cal, cal_in.new_cal)
  /\ cal_in.other_cal.type = "FullRangeFraction"
\* The number of terms the propagator asks of it.
FrfHelperTerms ==
  Max(cal_in.other_cal.ncoefs,
      Max(cal_in.orig_cal.ncoefs, cal_in.new_cal.ncoefs))

\* C39: the full-range-fraction least-squares helper of the propagator
\* assigns design-matrix entries only in columns its npoints-by-terms matrix
\* has, and assigns every column of that matrix before it solves, for every
\* number of terms asked of it; the coefficients of the answer carry no
\* value of a matrix element that was never assigned.
C39_FrfDesignMatrixFilled ==
  FrfHelperCalled
    => /\ FrfColumnsAssigned(FrfHelperTerms)
            \subseteq FrfMatrixColumns(FrfHelperTerms)
       /\ FrfMatrixColumns(FrfHelperTerms)
            \subseteq FrfColumnsAssigned(FrfHelperTerms)
       /\ ~cal_out.threw => Len(cal_out.answer.coefs) = 2

\* ------------------------- the design matrix of the channel-boundary fit
\* The fit built its matrix: it returned, or it threw at the inversion.
EdgeMatrixBuilt ==
  /\ EdgeFitCalled
  /\ cal_out.threw
       => cal_out.what = "Trouble inverting least linear squares matrix"
\* The basis function of the calibration model of order j at channel i, as
\* poly_coef_fcn and frf_coef_fcn declare their arguments.
ModelBasis(coeffcn, j, i, nchannel) == CoefFcn(coeffcn, j, FInt(i), nchannel)
\* The mean absolute difference between the boundary energies and the
\* energies the model gives for the coefficients.
ModelError(coefs, coeffcn, channel_energies) ==
  LET n == Len(channel_energies)
  IN FDiv(SumAbsDiffs([ i \in 1..n |->
                          Predicted(coefs, coeffcn, FInt(i - 1), n - 1,
                                    Len(coefs)) ],
                      channel_energies, coefs, n),
          FInt(n))

\* C40: in the channel-boundary fit the design-matrix entry for boundary
\* index i and coefficient j is the basis function of order j evaluated at
\* channel i (i to the power j for polynomial; i/N to the power j, or
\* 1/(1+60*i/N) in the fifth slot, for full range fraction), and the error
\* the fit returns is computed with that same basis.
C40_DesignMatrixIsModelBasis ==
  EdgeMatrixBuilt
    => LET n == Len(cal_in.channel_energies)
       IN /\ \A i \in 1..n : \A j \in 1..cal_in.ncoeffs :
               DesignEntry(cal_in.coeffcn, i, j, n - 1)
                 = ModelBasis(cal_in.coeffcn, j - 1, i - 1, n - 1)
          /\ ~cal_out.threw
               => cal_out.avrgdiffs
                    = ModelError(cal_out.coefs, cal_in.coeffcn,
                                 cal_in.channel_energies)

====
